---- MODULE Spec2Model ----
(***************************************************************************)
(* Verification model of the BlockyMarketMaker quoting and capital         *)
(* reconciliation engine.                                                   *)
(*                                                                          *)
(* Three subsystems are modelled, each with its own specification:          *)
(*   SpecCapital  the shared capital tracker of one place_orders_parallel   *)
(*                cycle (MarketMaker._process_market, src/main.py, bot.py)  *)
(*   SpecLimiter  the sliding-window rate limiters (RateLimiter and         *)
(*                AsyncRateLimiter)                                         *)
(*   SpecBreaker  the circuit breakers (CircuitBreaker and                  *)
(*                AsyncCircuitBreaker) driven by the clients' _request      *)
(*                                                                          *)
(* Units.  Prices are integers in cents (the code rounds prices to two      *)
(* decimals), quantities are integers in hundredths (the code formats       *)
(* quantities with two decimals), money is an integer in 1/10000 of a       *)
(* quote unit (cents times hundredths).  Time is an integer tick.           *)
(***************************************************************************)
EXTENDS Integers, Sequences, FiniteSets, TLC

(***************************************************************************)
(* Capital tracker                                                          *)
(***************************************************************************)

\* number of markets processed concurrently in one cycle
NumMarkets == 2

Markets == 1..NumMarkets

\* config.trading.target_value = 10.0, in money units
TARGET_VALUE == 100000

\* config.trading.max_quantity = 6400, in hundredths
MAX_QUANTITY == 640000

\* "Min Notional Check (0.05 buffer)"
MIN_NOTIONAL == 500

\* "if max_afford > 0.10: # Min threshold"
MIN_AFFORD == 1000

\* wallet snapshots (available iron) the cycle may start from
WalletChoices == {0, 700, 60000, 150000}

\* funds locked in a market's resting buy orders (sum of price x quantity)
LockedChoices == {0, 50000, 120000}

\* target quotes <<buy_price, sell_price>> reaching the allocation
QuoteChoices == {<<300, 310>>, <<7, 9>>}

\* the two revisions of _process_market
Impls == {"main", "bot"}

VARIABLES
  impl,          \* revision of _process_market in use
  wallet_iron,   \* self.wallets["iron"] at cycle start
  tracker,       \* capital_tracker["iron"]
  capital_lock,  \* holder of self.capital_lock, 0 when free
  mpc,           \* position of each market task
  locked_quote,  \* locked_quote of each market
  buy_price,     \* buy_price of each market
  sell_price,    \* sell_price of each market
  quote_balance, \* quote_balance local
  required_qty,  \* required_qty local
  should_buy,    \* should_buy local
  avail,         \* avail / current_balance read under the lock
  cost,          \* cost local once the allocation has been decided
  drawn,         \* amount each market removed from the tracker
  returned       \* surplus each market gave back to the tracker

capVars == <<impl, wallet_iron, tracker, capital_lock, mpc, locked_quote,
             buy_price, sell_price, quote_balance, required_qty, should_buy,
             avail, cost, drawn, returned>>

(***************************************************************************)
(* State of the rate limiters and of the circuit breakers                   *)
(***************************************************************************)

VARIABLES
  now,             \* time.time(), shared wall clock
  rl_kind,         \* "sync": RateLimiter, "async": AsyncRateLimiter
  max_requests,    \* self.max_requests
  window_seconds,  \* self.window_seconds
  timestamps,      \* self._timestamps / self.timestamps
  rl_lock,         \* holder of the limiter's self._lock, 0 when free
  rpc,             \* position of each caller inside acquire()
  wait_time,       \* wait_time / sleep_time local of each caller
  wake_at          \* earliest time at which a sleeping caller resumes

limVars == <<now, rl_kind, max_requests, window_seconds, timestamps, rl_lock,
             rpc, wait_time, wake_at>>

VARIABLES
  cb_kind,            \* "sync": CircuitBreaker, "async": AsyncCircuitBreaker
  failure_threshold,  \* self.failure_threshold
  recovery_timeout,   \* self.recovery_timeout
  half_open_max_calls,\* self.half_open_max_calls
  cb_state,           \* self._state / self.state
  failures,           \* self._failures / self.failure_count
  last_failure_time,  \* self._last_failure_time / self.last_failure_time
  half_open_calls,    \* self._half_open_calls / self.half_open_calls
  cpc,                \* position of each client call inside _request
  cb_event,           \* the breaker operation performed by the last step
  run_failures,       \* failures recorded since CLOSED with counter 0
  ho_admitted,        \* requests admitted since the last state change
  ho_successes        \* successes recorded since the last state change

brkVars == <<cb_kind, failure_threshold, recovery_timeout, half_open_max_calls,
             cb_state, failures, last_failure_time, half_open_calls, cpc,
             cb_event, run_failures, ho_admitted, ho_successes>>

\* one pass of _process_market over the resting orders of its market
VARIABLES
  rec_impl,          \* revision of _process_market in use
  open_orders,       \* open_orders handed to the pass
  target,            \* buy_price, buy_quantity, sell_price, sell_quantity
  desired,           \* should_buy and should_sell
  dry_run,           \* config.trading.dry_run
  orders_to_cancel,  \* orders_to_cancel
  active,            \* buy_active and sell_active
  cancel_calls,      \* ids for which cancel_order was called
  create_calls,      \* sides for which create_order was called
  rec_pc             \* position of the pass

recVars == <<rec_impl, open_orders, target, desired, dry_run,
             orders_to_cancel, active, cancel_calls, create_calls, rec_pc>>

\* the periodic loop of run() and the passes it and the WebSocket start
VARIABLES
  market_locks,  \* holder of self.market_locks[m], "free" when not held
  tpc,           \* position of each _process_market task
  escaped,       \* exception that left the cycle's task of each market
  run_pc,        \* position of run()
  cycles,        \* calls of place_orders_parallel that have returned
  had_error      \* some pass of a cycle has raised inside its try block

passVars == <<market_locks, tpc, escaped, run_pc, cycles, had_error>>

\* allocation requests of a given cost racing for one tracker
VARIABLES
  sim_impl,         \* allocation logic in use: the test's, bot.py's, main.py's
  seed,             \* capital_tracker["iron"] before the requests
  capital_tracker,  \* capital_tracker["iron"]
  lock,             \* holder of the lock, 0 when free
  request,          \* buy price and quantity of every request
  locked_funds,     \* locked_quote of every request
  spc,              \* position of each request
  current,          \* tracker balance each request read under the lock
  outcome,          \* how each request ended
  taken             \* amount each request removed from the tracker

simVars == <<sim_impl, seed, capital_tracker, lock, request, locked_funds,
             spc, current, outcome, taken>>

\* one call of a pricing function: the function, its arguments, its result
VARIABLES
  fn,               \* function applied, "none" before the call
  args,             \* arguments of the call
  ret               \* value returned by the call

priceVars == <<fn, args, ret>>

\* PriceModel's supply cache and the health endpoint
VARIABLES
  bot_kind,              \* bot serving /health: bot.py or src/main.py
  clock,                 \* time.time(), in units of _cache_ttl
  _metrics_cache,        \* TRUE when a cache is held
  _metrics_cache_time,   \* time of the fetch that filled the cache
  _using_stale_cache,
  _consecutive_failures,
  served_age,            \* age of the cache the last call returned, -1 if none
  last_fetch,            \* how the last call ended
  fetcher,               \* each thread inside get_circulating_supply
  response               \* last answer of the endpoint and what it read

healthVars == <<bot_kind, clock, _metrics_cache, _metrics_cache_time,
                _using_stale_cache, _consecutive_failures, served_age,
                last_fetch, fetcher, response>>

\* run(): startup loop, trading loop, shutdown
VARIABLES
  run_kind,         \* bot.py or src/main.py
  run_dry,          \* config.trading.dry_run
  sent_kinds,       \* kinds of order-mutating requests sent so far
  phase,            \* position of run()
  attempts,         \* startup attempts begun, counted up to MaxAttempts
  markets,          \* self.markets
  locks_for,        \* markets that have an entry in market_locks
  wallets,          \* TRUE when self.wallets is non-empty
  attempt_ok,       \* what the current attempt obtained
  rounds,           \* place_orders_parallel calls, counted up to MaxRounds
  end_cause,        \* why the trading loop ended
  sweeps,           \* cancel_orders calls made during shutdown
  sweep_failed,     \* the shutdown sweep raised
  client_closed,    \* client.close() was called
  ws_closed         \* ws.close() was called

runVars == <<run_kind, run_dry, sent_kinds, phase, attempts, markets,
             locks_for, wallets, attempt_ok, rounds, end_cause, sweeps,
             sweep_failed, client_closed, ws_closed>>

\* _fetch_open_orders and the order list of a WebSocket event
VARIABLES
  ord_impl,         \* bot.py or src/main.py
  ord_pc,           \* position: start, fetching, returned, handed
  cursor,           \* cursor local, 0 for None
  fetched_orders,   \* copies of each order in the open_orders dict
  pages,            \* get_orders requests made, counted up to MaxPages
  handed            \* market and open_orders given to _process_market

ordVars == <<ord_impl, ord_pc, cursor, fetched_orders, pages, handed>>

\* _update_wallets called by concurrent market passes
VARIABLES
  wal_clock,           \* time.time(), in ticks of 50 ms
  last_wallet_update,  \* self.last_wallet_update
  upc,                 \* position of each caller inside _update_wallets
  call_now,            \* now local of each caller
  wallet_requests      \* times at which get_wallets requests were sent

walVars == <<wal_clock, last_wallet_update, upc, call_now, wallet_requests>>

\* one market on the exchange, worked by the periodic cycle and by the
\* WebSocket handler
VARIABLES
  ex_orders,    \* the bot's resting orders of the market on the exchange
  ex_next_id,   \* id the exchange gives to the next order
  ex_pc,        \* position of each task: idle, fetched, locked, cancelled
  ex_snap,      \* open_orders each task fetched
  ex_plan,      \* target, desired and flags each task computed
  ex_lock       \* holder of self.market_locks[market], "free" when not held

exVars == <<ex_orders, ex_next_id, ex_pc, ex_snap, ex_plan, ex_lock>>

\* the requests of one market pass
VARIABLES
  rq_impl,      \* bot.py or src/main.py
  rq_pc,        \* position of the pass: cancelling, creating, done, aborted
  cancel_req,   \* state of the cancel_order request of each stale order
  create_req    \* state of the create_order request of each side

reqVars == <<rq_impl, rq_pc, cancel_req, create_req>>

vars == <<capVars, limVars, brkVars, recVars, passVars, simVars, priceVars,
         healthVars, runVars, ordVars, walVars, exVars, reqVars>>

Max(a, b) == IF a >= b THEN a ELSE b

\* f"{n/d:.2f}" on non-negative operands: nearest, ties to even
RoundHalfEven(n, d) ==
  LET q == n \div d
      r == n % d
  IN  IF 2 * r < d THEN q
      ELSE IF 2 * r > d THEN q + 1
      ELSE IF q % 2 = 0 THEN q ELSE q + 1

\* check_price = buy_price if buy_price > 0 else (sell_price if sell_price > 0 else 0)
CheckPrice(bp, sp) == IF bp > 0 THEN bp ELSE IF sp > 0 THEN sp ELSE 0

\* allocated_value after the dynamic sizing and the min notional check
AllocatedValue(qb) ==
  LET a == IF qb < TARGET_VALUE THEN qb ELSE TARGET_VALUE
  IN  IF a < MIN_NOTIONAL THEN 0 ELSE a

\* required_qty: allocated_value / check_price, capped, formatted to 2 decimals
RequiredQty(qb, bp, sp) ==
  LET a  == AllocatedValue(qb)
      cp == CheckPrice(bp, sp)
  IN  IF cp > 0 /\ a > 0
        THEN IF a > MAX_QUANTITY * cp THEN MAX_QUANTITY
             ELSE RoundHalfEven(a, cp)
        ELSE 0

\* should_buy = (quote_balance >= buy_price * required_qty) and required_qty > 0
ShouldBuy(qb, bp, qty) == qb >= bp * qty /\ qty > 0

\* async with self.capital_lock: the lock can be taken only when free
CapitalLockFree_NoLock == TRUE

CapitalLockFree == capital_lock = 0

\* outcome of the critical section of src/main.py for avail a, locked l,
\* buy price bp and quantity qty
AllocateMain_NoRecheck(a, l, bp, qty) ==
  LET c      == bp * qty
      needed == c - l
  IN  IF needed > 0
        THEN [tracker |-> a - needed, cost |-> c, qty |-> qty,
              buy |-> TRUE, drawn |-> needed, returned |-> 0]
        ELSE [tracker |-> a + (0 - needed), cost |-> c, qty |-> qty,
              buy |-> TRUE, drawn |-> 0, returned |-> 0 - needed]

AllocateMain(a, l, bp, qty) ==
  LET c      == bp * qty
      needed == c - l
  IN  IF needed > 0
        THEN IF a >= needed
               THEN [tracker |-> a - needed, cost |-> c, qty |-> qty,
                     buy |-> TRUE, drawn |-> needed, returned |-> 0]
             ELSE IF l + a > MIN_AFFORD
               THEN [tracker |-> 0, cost |-> l + a,
                     qty |-> RoundHalfEven(l + a, bp),
                     buy |-> TRUE, drawn |-> a, returned |-> 0]
             ELSE [tracker |-> a, cost |-> 0, qty |-> qty,
                   buy |-> FALSE, drawn |-> 0, returned |-> 0]
        ELSE [tracker |-> a + (0 - needed), cost |-> c, qty |-> qty,
              buy |-> TRUE, drawn |-> 0, returned |-> 0 - needed]

\* outcome of the critical section of bot.py: cur is the current_balance
\* read first, t the tracker value read again by the decrement
AllocateBot(cur, t, bp, qty) ==
  LET c == bp * qty
  IN  IF cur >= c
        THEN [tracker |-> Max(0, t - c), cost |-> c, qty |-> qty,
              buy |-> TRUE, drawn |-> t - Max(0, t - c), returned |-> 0]
        ELSE [tracker |-> t, cost |-> 0, qty |-> qty,
              buy |-> FALSE, drawn |-> 0, returned |-> 0]

CapInit ==
  /\ impl \in Impls
  /\ wallet_iron \in WalletChoices
  /\ tracker = wallet_iron
  /\ capital_lock = 0
  /\ mpc = [m \in Markets |-> "start"]
  /\ locked_quote \in [Markets -> LockedChoices]
  /\ \E q \in [Markets -> QuoteChoices] :
       /\ buy_price = [m \in Markets |-> q[m][1]]
       /\ sell_price = [m \in Markets |-> q[m][2]]
  /\ quote_balance = [m \in Markets |-> 0]
  /\ required_qty = [m \in Markets |-> 0]
  /\ should_buy = [m \in Markets |-> FALSE]
  /\ avail = [m \in Markets |-> 0]
  /\ cost = [m \in Markets |-> 0]
  /\ drawn = [m \in Markets |-> 0]
  /\ returned = [m \in Markets |-> 0]

\* first "async with self.capital_lock" of _process_market
AcquireForBalance(m) ==
  /\ mpc[m] = "start"
  /\ CapitalLockFree
  /\ capital_lock' = m
  /\ mpc' = [mpc EXCEPT ![m] = "balance"]
  /\ UNCHANGED <<impl, wallet_iron, tracker, locked_quote, buy_price,
                 sell_price, quote_balance, required_qty, should_buy, avail,
                 cost, drawn, returned>>
  /\ UNCHANGED <<limVars, brkVars, recVars, passVars, simVars, priceVars,
                 healthVars, runVars, ordVars, walVars, exVars, reqVars>>

\* quote_balance = capital_tracker.get("iron", 0) + locked_quote, release,
\* then the sizing up to should_buy
ReadQuoteBalance(m) ==
  /\ mpc[m] = "balance"
  /\ LET qb  == tracker + locked_quote[m]
         qty == RequiredQty(qb, buy_price[m], sell_price[m])
     IN  /\ quote_balance' = [quote_balance EXCEPT ![m] = qb]
         /\ required_qty' = [required_qty EXCEPT ![m] = qty]
         /\ should_buy' = [should_buy EXCEPT ![m] = ShouldBuy(qb, buy_price[m], qty)]
  /\ capital_lock' = 0
  /\ mpc' = [mpc EXCEPT ![m] = "sized"]
  /\ UNCHANGED <<impl, wallet_iron, tracker, locked_quote, buy_price,
                 sell_price, avail, cost, drawn, returned>>
  /\ UNCHANGED <<limVars, brkVars, recVars, passVars, simVars, priceVars,
                 healthVars, runVars, ordVars, walVars, exVars, reqVars>>

\* "if should_buy and quote == 'iron' and capital_tracker is not None" is false
SkipAllocation(m) ==
  /\ mpc[m] = "sized"
  /\ ~should_buy[m]
  /\ mpc' = [mpc EXCEPT ![m] = "done"]
  /\ UNCHANGED <<impl, wallet_iron, tracker, capital_lock, locked_quote,
                 buy_price, sell_price, quote_balance, required_qty,
                 should_buy, avail, cost, drawn, returned>>
  /\ UNCHANGED <<limVars, brkVars, recVars, passVars, simVars, priceVars,
                 healthVars, runVars, ordVars, walVars, exVars, reqVars>>

\* second "async with self.capital_lock"
AcquireForAllocation(m) ==
  /\ mpc[m] = "sized"
  /\ should_buy[m]
  /\ CapitalLockFree
  /\ capital_lock' = m
  /\ mpc' = [mpc EXCEPT ![m] = "locked"]
  /\ UNCHANGED <<impl, wallet_iron, tracker, locked_quote, buy_price,
                 sell_price, quote_balance, required_qty, should_buy, avail,
                 cost, drawn, returned>>
  /\ UNCHANGED <<limVars, brkVars, recVars, passVars, simVars, priceVars,
                 healthVars, runVars, ordVars, walVars, exVars, reqVars>>

\* avail = capital_tracker.get("iron", 0)
\* (bot.py: current_balance = capital_tracker.get("iron", 0) + locked_quote)
ReadAvail(m) ==
  /\ mpc[m] = "locked"
  /\ avail' = [avail EXCEPT ![m] =
                 IF impl = "main" THEN tracker ELSE tracker + locked_quote[m]]
  /\ mpc' = [mpc EXCEPT ![m] = "decide"]
  /\ UNCHANGED <<impl, wallet_iron, tracker, capital_lock, locked_quote,
                 buy_price, sell_price, quote_balance, required_qty,
                 should_buy, cost, drawn, returned>>
  /\ UNCHANGED <<limVars, brkVars, recVars, passVars, simVars, priceVars,
                 healthVars, runVars, ordVars, walVars, exVars, reqVars>>

\* the decision and the write back of the tracker, then the release
Allocate(m) ==
  /\ mpc[m] = "decide"
  /\ LET r == IF impl = "main"
                THEN AllocateMain(avail[m], locked_quote[m], buy_price[m],
                                  required_qty[m])
                ELSE AllocateBot(avail[m], tracker, buy_price[m],
                                 required_qty[m])
     IN  /\ tracker' = r.tracker
         /\ cost' = [cost EXCEPT ![m] = r.cost]
         /\ required_qty' = [required_qty EXCEPT ![m] = r.qty]
         /\ should_buy' = [should_buy EXCEPT ![m] = r.buy]
         /\ drawn' = [drawn EXCEPT ![m] = r.drawn]
         /\ returned' = [returned EXCEPT ![m] = r.returned]
  /\ capital_lock' = 0
  /\ mpc' = [mpc EXCEPT ![m] = "done"]
  /\ UNCHANGED <<impl, wallet_iron, locked_quote, buy_price, sell_price,
                 quote_balance, avail>>
  /\ UNCHANGED <<limVars, brkVars, recVars, passVars, simVars, priceVars,
                 healthVars, runVars, ordVars, walVars, exVars, reqVars>>

RECURSIVE SumOver(_, _)
SumOver(f, S) ==
  IF S = {} THEN 0
  ELSE LET x == CHOOSE y \in S : TRUE
       IN  f[x] + SumOver(f, S \ {x})

(***************************************************************************)
(* Claims about the capital tracker                                         *)
(***************************************************************************)

NoLockedFunds == \A m \in Markets : locked_quote[m] = 0

AllDone == \A m \in Markets : mpc[m] = "done"

\* C1: when no market has funds locked in resting orders, in every reachable
\* state of every interleaving the tracker is not negative, the granted
\* allocations (the cost each market was granted) sum to at most the seeded
\* balance, and granted allocations plus the tracker equal the seeded balance.
C1_Conservation ==
  NoLockedFunds =>
    /\ tracker >= 0
    /\ SumOver(cost, Markets) <= wallet_iron
    /\ SumOver(cost, Markets) + tracker = wallet_iron

\* C1 witness: a finished cycle without locked funds in which every market
\* was granted funds and the last one had to take what the others left.
C1_Witness ==
  /\ NoLockedFunds
  /\ AllDone
  /\ wallet_iron > 0
  /\ tracker = 0
  /\ \A m \in Markets : cost[m] > 0
  /\ \E m \in Markets : cost[m] < buy_price[m] * RequiredQty(wallet_iron, buy_price[m], sell_price[m])

\* C2 as stated: the amounts the markets draw from the tracker never sum to
\* more than the balance the tracker was seeded with.
C2_Original == SumOver(drawn, Markets) <= wallet_iron

\* C2 amended: the tracker never goes negative, that is the amounts drawn
\* never sum to more than the seeded balance plus the surplus that markets
\* returned to the tracker in the same cycle.
C2_DrawnCovered ==
  /\ tracker >= 0
  /\ SumOver(drawn, Markets) <= wallet_iron + SumOver(returned, Markets)

\* C2 witness: a finished cycle of src/main.py in which one market returned
\* surplus and the draws exceed the seeded balance.
C2_Witness ==
  /\ AllDone
  /\ impl = "main"
  /\ SumOver(returned, Markets) > 0
  /\ SumOver(drawn, Markets) > wallet_iron

\* buy_price * required_qty as sized before the allocation
SizedCost(m) ==
  buy_price[m] * RequiredQty(quote_balance[m], buy_price[m], sell_price[m])

\* the market went through the allocation critical section
Allocated(m) ==
  /\ mpc[m] = "done"
  /\ ShouldBuy(quote_balance[m], buy_price[m],
               RequiredQty(quote_balance[m], buy_price[m], sell_price[m]))

\* the tracker balance the market read under the lock
TrackerAtLock(m) ==
  IF impl = "main" THEN avail[m] ELSE avail[m] - locked_quote[m]

\* the amount needed beyond the market's locked funds exceeded the tracker
Short(m) == SizedCost(m) - locked_quote[m] > TrackerAtLock(m)

\* the buy was resized to locked funds plus tracker and the tracker emptied
Shrunk(m) ==
  /\ should_buy[m]
  /\ cost[m] = locked_quote[m] + TrackerAtLock(m)
  /\ required_qty[m] = RoundHalfEven(cost[m], buy_price[m])
  /\ drawn[m] = TrackerAtLock(m)
  /\ returned[m] = 0

\* the buy was given up and the tracker left as it was
Refused(m) ==
  /\ ~should_buy[m]
  /\ cost[m] = 0
  /\ drawn[m] = 0
  /\ returned[m] = 0

NumCallers == 2

Callers == 1..NumCallers

\* last tick of the clock
MaxTime == 3

\* largest max_requests tried
MaxRequests == 2

\* largest window_seconds tried, in ticks
MaxWindow == 2

\* longest timestamp list explored
MaxStamps == MaxRequests + NumCallers

\* while self._timestamps and self._timestamps[0] < cutoff: popleft()
RECURSIVE SyncPrune(_, _)
SyncPrune(ts, cutoff) ==
  IF ts # <<>> /\ ts[1] < cutoff THEN SyncPrune(Tail(ts), cutoff) ELSE ts

\* self.timestamps = [t for t in self.timestamps if t > cutoff]
AsyncKeep(t, cutoff) == t > cutoff

AsyncPrune(ts, cutoff) == SelectSeq(ts, LAMBDA t : AsyncKeep(t, cutoff))

\* wait_time = self._timestamps[0] - cutoff when the window is full, else 0
SyncWaitTime(ts, cutoff) ==
  IF Len(ts) >= max_requests THEN ts[1] - cutoff ELSE 0

\* sleep_time = self.timestamps[0] - cutoff when the window is full, else 0
AsyncSleepTime_Short(ts, cutoff) ==
  IF Len(ts) >= max_requests THEN ts[1] - cutoff - 1 ELSE 0

AsyncSleepTime(ts, cutoff) ==
  IF Len(ts) >= max_requests THEN ts[1] - cutoff ELSE 0

LimInit ==
  /\ now = 0
  /\ rl_kind \in {"sync", "async"}
  /\ max_requests \in 1..MaxRequests
  /\ window_seconds \in 1..MaxWindow
  /\ timestamps = <<>>
  /\ rl_lock = 0
  /\ rpc = [c \in Callers |-> "idle"]
  /\ wait_time = [c \in Callers |-> 0]
  /\ wake_at = [c \in Callers |-> 0]

\* the limiter of a client that is not exercised
LimIdle ==
  /\ now = 0
  /\ rl_kind = "sync"
  /\ max_requests = 1
  /\ window_seconds = 1
  /\ timestamps = <<>>
  /\ rl_lock = 0
  /\ rpc = [c \in Callers |-> "idle"]
  /\ wait_time = [c \in Callers |-> 0]
  /\ wake_at = [c \in Callers |-> 0]

\* RateLimiter.acquire, first "with self._lock" block: prune, compute
\* wait_time, leave the lock
SyncCheck(c) ==
  /\ rl_kind = "sync"
  /\ rpc[c] = "idle"
  /\ rl_lock = 0
  /\ Len(timestamps) < MaxStamps
  /\ LET cutoff == now - window_seconds
         ts     == SyncPrune(timestamps, cutoff)
         wt     == SyncWaitTime(ts, cutoff)
     IN  /\ timestamps' = ts
         /\ wait_time' = [wait_time EXCEPT ![c] = wt]
         /\ wake_at' = [wake_at EXCEPT ![c] = now + wt]
         /\ rpc' = [rpc EXCEPT ![c] = IF wt > 0 THEN "sleeping" ELSE "ready"]
  /\ UNCHANGED <<now, rl_kind, max_requests, window_seconds, rl_lock>>
  /\ UNCHANGED <<capVars, brkVars, recVars, passVars, simVars, priceVars,
                 healthVars, runVars, ordVars, walVars, exVars, reqVars>>

\* RateLimiter.acquire: time.sleep(wait_time) returns
SyncWake(c) ==
  /\ rl_kind = "sync"
  /\ rpc[c] = "sleeping"
  /\ now >= wake_at[c]
  /\ rpc' = [rpc EXCEPT ![c] = "ready"]
  /\ UNCHANGED <<now, rl_kind, max_requests, window_seconds, timestamps,
                 rl_lock, wait_time, wake_at>>
  /\ UNCHANGED <<capVars, brkVars, recVars, passVars, simVars, priceVars,
                 healthVars, runVars, ordVars, walVars, exVars, reqVars>>

\* RateLimiter.acquire, second "with self._lock" block:
\* self._timestamps.append(time.time())
SyncRecord(c) ==
  /\ rl_kind = "sync"
  /\ rpc[c] = "ready"
  /\ rl_lock = 0
  /\ timestamps' = Append(timestamps, now)
  /\ rpc' = [rpc EXCEPT ![c] = "idle"]
  /\ UNCHANGED <<now, rl_kind, max_requests, window_seconds, rl_lock,
                 wait_time, wake_at>>
  /\ UNCHANGED <<capVars, brkVars, recVars, passVars, simVars, priceVars,
                 healthVars, runVars, ordVars, walVars, exVars, reqVars>>

\* AsyncRateLimiter.acquire up to its first suspension: take the lock, prune,
\* then either sleep holding the lock or append and leave
AsyncEnter(c) ==
  /\ rl_kind = "async"
  /\ rpc[c] = "idle"
  /\ rl_lock = 0
  /\ Len(timestamps) < MaxStamps
  /\ LET cutoff == now - window_seconds
         ts     == AsyncPrune(timestamps, cutoff)
         st     == AsyncSleepTime(ts, cutoff)
     IN  /\ wait_time' = [wait_time EXCEPT ![c] = st]
         /\ IF st > 0
              THEN /\ timestamps' = ts
                   /\ rl_lock' = c
                   /\ rpc' = [rpc EXCEPT ![c] = "sleeping"]
                   /\ wake_at' = [wake_at EXCEPT ![c] = now + st]
              ELSE /\ timestamps' = Append(ts, now)
                   /\ rl_lock' = 0
                   /\ rpc' = rpc
                   /\ wake_at' = wake_at
  /\ UNCHANGED <<now, rl_kind, max_requests, window_seconds>>
  /\ UNCHANGED <<capVars, brkVars, recVars, passVars, simVars, priceVars,
                 healthVars, runVars, ordVars, walVars, exVars, reqVars>>

\* AsyncRateLimiter.acquire: asyncio.sleep returns, append, leave the lock
AsyncWake(c) ==
  /\ rl_kind = "async"
  /\ rpc[c] = "sleeping"
  /\ now >= wake_at[c]
  /\ timestamps' = Append(timestamps, now)
  /\ rl_lock' = 0
  /\ rpc' = [rpc EXCEPT ![c] = "idle"]
  /\ UNCHANGED <<now, rl_kind, max_requests, window_seconds, wait_time,
                 wake_at>>
  /\ UNCHANGED <<capVars, brkVars, recVars, passVars, simVars, priceVars,
                 healthVars, runVars, ordVars, walVars, exVars, reqVars>>

\* the wall clock advances
LimTick ==
  /\ now < MaxTime
  /\ now' = now + 1
  /\ UNCHANGED <<rl_kind, max_requests, window_seconds, timestamps, rl_lock,
                 rpc, wait_time, wake_at>>
  /\ UNCHANGED <<capVars, brkVars, recVars, passVars, simVars, priceVars,
                 healthVars, runVars, ordVars, walVars, exVars, reqVars>>

(***************************************************************************)
(* Claims about the rate limiters                                           *)
(***************************************************************************)

\* number of recorded timestamps inside the trailing window (t - window, t]
InWindow(t) ==
  Cardinality({i \in DOMAIN timestamps :
                 timestamps[i] > t - window_seconds /\ timestamps[i] <= t})

WindowRespected == \A t \in 0..MaxTime : InWindow(t) <= max_requests

\* C3: the timestamps recorded by the thread rate limiter never hold more
\* than max_requests entries inside any trailing window.
C3_SyncWindow == rl_kind = "sync" => WindowRespected

\* C4: the timestamps recorded by the async rate limiter never hold more
\* than max_requests entries inside any trailing window.
C4_AsyncWindow == rl_kind = "async" => WindowRespected

\* C4 witness: the async limiter made a caller sleep on a full window and
\* recorded its timestamp after the oldest entry had left the window.
C4_Witness ==
  /\ rl_kind = "async"
  /\ \E c \in Callers : wait_time[c] > 0 /\ rpc[c] = "idle"
  /\ Len(timestamps) > max_requests
  /\ timestamps[Len(timestamps)] = now

\* C18: in neither rate limiter is the internal lock held while a caller of
\* acquire() is sleeping, so that another caller can take it and inspect the
\* window.
C18_WaitOutsideLock ==
  (\E c \in Callers : rpc[c] = "sleeping") => rl_lock = 0

(***************************************************************************)
(* Circuit breakers                                                         *)
(***************************************************************************)

\* number of client calls that can be in flight together
NumClients == 2

Clients == 1..NumClients

\* largest failure_threshold tried
MaxThreshold == 3

\* largest recovery_timeout tried, in ticks
MaxRecovery == 2

\* largest half_open_max_calls tried
MaxHalfOpen == 2

\* what the exchange answers to a request that was sent:
\*   "ok"         a successful response
\*   "error"      a connection error, timeout, HTTP error or API error
\*   "throttled"  HTTP 429
\*   "other"      any other exception raised by the transport
Outcomes == {"ok", "error", "throttled", "other"}

\* the breaker's fields as one value
Breaker ==
  [state |-> cb_state, failures |-> failures, last |-> last_failure_time,
   calls |-> half_open_calls]

\* CircuitBreaker._check_recovery at time t
CheckRecovery_NoReset(b, t) ==
  IF b.state = "OPEN" /\ t - b.last >= recovery_timeout
    THEN [b EXCEPT !.state = "HALF_OPEN"]
    ELSE b

CheckRecovery(b, t) ==
  IF b.state = "OPEN" /\ t - b.last >= recovery_timeout
    THEN [b EXCEPT !.state = "HALF_OPEN", !.calls = 0]
    ELSE b

\* CircuitBreaker.allow_request at time t: the breaker afterwards and whether
\* the request is allowed (FALSE: CircuitBreakerOpen is raised)
AllowRequest(b, t) ==
  LET b1 == CheckRecovery(b, t)
  IN  IF b1.state = "CLOSED" THEN [b |-> b1, ok |-> TRUE]
      ELSE IF b1.state = "OPEN" THEN [b |-> b1, ok |-> FALSE]
      ELSE IF b1.calls < half_open_max_calls
        THEN [b |-> [b1 EXCEPT !.calls = b1.calls + 1], ok |-> TRUE]
        ELSE [b |-> b1, ok |-> FALSE]

\* CircuitBreaker.record_success
RecordSuccess(b) ==
  IF b.state = "HALF_OPEN"
    THEN [b EXCEPT !.state = "CLOSED", !.failures = 0]
  ELSE IF b.state = "CLOSED"
    THEN IF b.failures > 0
           THEN [b EXCEPT !.failures = Max(0, b.failures - 1)]
           ELSE b
  ELSE b

\* CircuitBreaker.record_failure at time t
RecordFailure_Late(b, t) ==
  LET b1 == [b EXCEPT !.failures = b.failures + 1, !.last = t]
  IN  IF b1.state = "HALF_OPEN" THEN [b1 EXCEPT !.state = "OPEN"]
      ELSE IF b1.state = "CLOSED" /\ b1.failures > failure_threshold
        THEN [b1 EXCEPT !.state = "OPEN"]
      ELSE b1

RecordFailure(b, t) ==
  LET b1 == [b EXCEPT !.failures = b.failures + 1, !.last = t]
  IN  IF b1.state = "HALF_OPEN" THEN [b1 EXCEPT !.state = "OPEN"]
      ELSE IF b1.state = "CLOSED" /\ b1.failures >= failure_threshold
        THEN [b1 EXCEPT !.state = "OPEN"]
      ELSE b1

\* the locked prologue of AsyncCircuitBreaker.call at time t
AsyncAdmit(b, t) ==
  IF b.state = "OPEN"
    THEN IF t - b.last >= recovery_timeout
           THEN [b |-> [b EXCEPT !.state = "HALF_OPEN", !.calls = 0],
                 ok |-> TRUE]
           ELSE [b |-> b, ok |-> FALSE]
    ELSE [b |-> b, ok |-> TRUE]

\* AsyncCircuitBreaker._on_success
OnSuccess(b) ==
  IF b.state = "HALF_OPEN"
    THEN LET b1 == [b EXCEPT !.calls = b.calls + 1]
         IN  IF b1.calls >= half_open_max_calls
               THEN [b1 EXCEPT !.state = "CLOSED", !.failures = 0]
               ELSE b1
    ELSE [b EXCEPT !.failures = 0]

\* AsyncCircuitBreaker._on_failure at time t
OnFailure(b, t) ==
  LET b1 == [b EXCEPT !.failures = b.failures + 1, !.last = t]
  IN  IF b1.failures >= failure_threshold
        THEN [b1 EXCEPT !.state = "OPEN"]
        ELSE b1

\* what Blocky._request records for an outcome
SyncRecorded(o) ==
  IF o = "ok" THEN "success"
  ELSE IF o \in {"error", "throttled"} THEN "failure"
  ELSE "unrecorded"

\* what AsyncCircuitBreaker.call records for an outcome of make_request
AsyncRecorded(o) ==
  IF o = "ok" THEN "success"
  ELSE IF o = "throttled" THEN "unrecorded"
  ELSE "failure"

\* the step just taken: the operation, whether a request went out to the
\* exchange in it, whether it is the arrival of an HTTP 429, and for a
\* recorded result the breaker state and the failure counter the step
\* started from
Event(op, sent, throttled) ==
  [op |-> op, sent |-> sent, throttled |-> throttled,
   from |-> IF op \in {"tick", "read", "unrecorded"} THEN "-" ELSE cb_state,
   fails |-> IF op = "success" THEN failures ELSE 0]

\* bookkeeping of the observers after a step that leaves the breaker as b
\* and whose operation is op ("admit", "block", "success", "failure", ...)
Observe(b, op) ==
  /\ run_failures' =
       IF op = "failure"
         THEN IF run_failures >= 0
                THEN (IF run_failures < failure_threshold
                        THEN run_failures + 1 ELSE run_failures)
                ELSE run_failures
       ELSE IF op = "success"
         THEN IF b.state = "CLOSED" /\ b.failures = 0 THEN 0 ELSE 0 - 1
       ELSE run_failures
  /\ ho_admitted' =
       IF cb_state # "HALF_OPEN" /\ b.state = "HALF_OPEN"
         THEN IF op = "admit" THEN 1 ELSE 0
       ELSE IF op = "admit" /\ cb_state = "HALF_OPEN"
              /\ ho_admitted <= half_open_max_calls
         THEN ho_admitted + 1
       ELSE ho_admitted
  /\ ho_successes' =
       IF cb_state # "HALF_OPEN" /\ b.state = "HALF_OPEN" THEN 0
       ELSE IF op = "success" /\ cb_state = "HALF_OPEN"
              /\ ho_successes < half_open_max_calls
         THEN ho_successes + 1
       ELSE ho_successes

SetBreaker(b) ==
  /\ cb_state' = b.state
  /\ failures' = b.failures
  /\ last_failure_time' = b.last
  /\ half_open_calls' = b.calls

BrkInit ==
  /\ cb_kind \in {"sync", "async"}
  /\ failure_threshold \in 1..MaxThreshold
  /\ recovery_timeout \in 1..MaxRecovery
  /\ half_open_max_calls \in 1..MaxHalfOpen
  /\ cb_state = "CLOSED"
  /\ failures = 0
  /\ last_failure_time = 0
  /\ half_open_calls = 0
  /\ cpc = [k \in Clients |-> "idle"]
  /\ cb_event = [op |-> "init", sent |-> FALSE, throttled |-> FALSE,
                 from |-> "-", fails |-> 0]
  /\ run_failures = 0
  /\ ho_admitted = 0
  /\ ho_successes = 0

\* the breaker of a client that is not exercised
BrkIdle ==
  /\ cb_kind = "sync"
  /\ failure_threshold = 1
  /\ recovery_timeout = 1
  /\ half_open_max_calls = 1
  /\ cb_state = "CLOSED"
  /\ failures = 0
  /\ last_failure_time = 0
  /\ half_open_calls = 0
  /\ cpc = [k \in Clients |-> "idle"]
  /\ cb_event = [op |-> "init", sent |-> FALSE, throttled |-> FALSE,
                 from |-> "-", fails |-> 0]
  /\ run_failures = 0
  /\ ho_admitted = 0
  /\ ho_successes = 0

\* Blocky._request: self.circuit_breaker.allow_request(); when it returns
\* the request goes out, when it raises nothing is sent
SyncAllow(k) ==
  /\ cb_kind = "sync"
  /\ cpc[k] = "idle"
  /\ LET r  == AllowRequest(Breaker, now)
         op == IF r.ok THEN "admit" ELSE "block"
     IN  /\ SetBreaker(r.b)
         /\ cpc' = [cpc EXCEPT ![k] = IF r.ok THEN "sent" ELSE "idle"]
         /\ cb_event' = Event(op, r.ok, FALSE)
         /\ Observe(r.b, op)
  /\ UNCHANGED <<cb_kind, failure_threshold, recovery_timeout,
                 half_open_max_calls>>
  /\ UNCHANGED <<capVars, limVars, recVars, passVars, simVars, priceVars,
                 healthVars, runVars, ordVars, walVars, exVars, reqVars>>

\* Blocky._request: the request returns or raises and the result is recorded
SyncRespond(k, o) ==
  /\ cb_kind = "sync"
  /\ cpc[k] = "sent"
  /\ LET op == SyncRecorded(o)
         b  == IF op = "success" THEN RecordSuccess(Breaker)
               ELSE IF op = "failure" THEN RecordFailure(Breaker, now)
               ELSE Breaker
     IN  /\ SetBreaker(b)
         /\ cb_event' = Event(op, FALSE, o = "throttled")
         /\ Observe(b, op)
  /\ cpc' = [cpc EXCEPT ![k] = "idle"]
  /\ UNCHANGED <<cb_kind, failure_threshold, recovery_timeout,
                 half_open_max_calls>>
  /\ UNCHANGED <<capVars, limVars, recVars, passVars, simVars, priceVars,
                 healthVars, runVars, ordVars, walVars, exVars, reqVars>>

\* HealthServer.health_handler reads CircuitBreaker.state, which runs
\* _check_recovery
SyncReadState ==
  /\ cb_kind = "sync"
  /\ LET b == CheckRecovery(Breaker, now)
     IN  /\ SetBreaker(b)
         /\ cb_event' = Event("read", FALSE, FALSE)
         /\ Observe(b, "read")
  /\ UNCHANGED <<cb_kind, failure_threshold, recovery_timeout,
                 half_open_max_calls, cpc>>
  /\ UNCHANGED <<capVars, limVars, recVars, passVars, simVars, priceVars,
                 healthVars, runVars, ordVars, walVars, exVars, reqVars>>

\* AsyncCircuitBreaker.call: the locked prologue; when it does not raise,
\* func is awaited
AsyncCall(k) ==
  /\ cb_kind = "async"
  /\ cpc[k] = "idle"
  /\ LET r  == AsyncAdmit(Breaker, now)
         op == IF r.ok THEN "admit" ELSE "block"
     IN  /\ SetBreaker(r.b)
         /\ cpc' = [cpc EXCEPT ![k] = IF r.ok THEN "sent" ELSE "idle"]
         /\ cb_event' = Event(op, r.ok, FALSE)
         /\ Observe(r.b, op)
  /\ UNCHANGED <<cb_kind, failure_threshold, recovery_timeout,
                 half_open_max_calls>>
  /\ UNCHANGED <<capVars, limVars, recVars, passVars, simVars, priceVars,
                 healthVars, runVars, ordVars, walVars, exVars, reqVars>>

\* AsyncCircuitBreaker.call: func returns or raises and the result is recorded
AsyncRespond(k, o) ==
  /\ cb_kind = "async"
  /\ cpc[k] = "sent"
  /\ LET op == AsyncRecorded(o)
         b  == IF op = "success" THEN OnSuccess(Breaker)
               ELSE IF op = "failure" THEN OnFailure(Breaker, now)
               ELSE Breaker
     IN  /\ SetBreaker(b)
         /\ cb_event' = Event(op, FALSE, o = "throttled")
         /\ Observe(b, op)
  /\ cpc' = [cpc EXCEPT ![k] = "idle"]
  /\ UNCHANGED <<cb_kind, failure_threshold, recovery_timeout,
                 half_open_max_calls>>
  /\ UNCHANGED <<capVars, limVars, recVars, passVars, simVars, priceVars,
                 healthVars, runVars, ordVars, walVars, exVars, reqVars>>

\* AsyncBlocky.get_supply_metrics: after the rate limiter the GET goes out
\* through the session itself; the breaker is neither asked nor told, and
\* whatever the request raises is swallowed
GetSupplyMetrics ==
  /\ cb_kind = "async"
  /\ cb_event' = Event("bypass", TRUE, FALSE)
  /\ UNCHANGED <<cb_kind, failure_threshold, recovery_timeout,
                 half_open_max_calls, cb_state, failures, last_failure_time,
                 half_open_calls, cpc, run_failures, ho_admitted,
                 ho_successes>>
  /\ UNCHANGED <<capVars, limVars, recVars, passVars, simVars, priceVars,
                 healthVars, runVars, ordVars, walVars, exVars, reqVars>>

\* the wall clock advances
BrkTick ==
  /\ now < MaxTime
  /\ now' = now + 1
  /\ cb_event' = Event("tick", FALSE, FALSE)
  /\ UNCHANGED <<cb_kind, failure_threshold, recovery_timeout,
                 half_open_max_calls, cb_state, failures, last_failure_time,
                 half_open_calls, cpc, run_failures, ho_admitted,
                 ho_successes>>
  /\ UNCHANGED <<rl_kind, max_requests, window_seconds, timestamps, rl_lock,
                 rpc, wait_time, wake_at>>
  /\ UNCHANGED <<capVars, recVars, passVars, simVars, priceVars, healthVars,
                 runVars, ordVars, walVars, exVars, reqVars>>

(***************************************************************************)
(* Claims about the circuit breakers                                        *)
(***************************************************************************)

\* C5: starting from CLOSED with failure counter 0, as long as fewer than
\* failure_threshold failures were recorded (no success in between) the
\* breaker is CLOSED, and right after the failure that completes
\* failure_threshold of them the breaker is OPEN, for both breakers.
C5_Opening ==
  /\ (run_failures >= 0 /\ run_failures < failure_threshold)
       => cb_state = "CLOSED"
  /\ (cb_event.op = "failure" /\ run_failures = failure_threshold)
       => cb_state = "OPEN"

\* C5 witness: the failure that completes a threshold of at least two
\* failures in a row has just opened a CLOSED breaker.
C5_Witness ==
  /\ failure_threshold >= 2
  /\ cb_event.op = "failure"
  /\ cb_event.from = "CLOSED"
  /\ run_failures = failure_threshold
  /\ cb_state = "OPEN"

\* C6: an admission check made while the breaker is OPEN is refused, sends
\* nothing and leaves the breaker OPEN when less than recovery_timeout has
\* passed since the last recorded failure; otherwise it moves the breaker to
\* HALF_OPEN, restarts the probe counter from 0 (the thread breaker then
\* counts the admitted request itself) and the request is sent.
C6_Recovery ==
  (cb_event.op \in {"admit", "block"} /\ cb_event.from = "OPEN") =>
    IF now - last_failure_time < recovery_timeout
      THEN /\ cb_event.op = "block"
           /\ cb_state = "OPEN"
           /\ ~cb_event.sent
      ELSE /\ cb_event.op = "admit"
           /\ cb_state = "HALF_OPEN"
           /\ cb_event.sent
           /\ half_open_calls = (IF cb_kind = "sync" THEN 1 ELSE 0)

\* C6 witness: a request has just been admitted by a breaker that was OPEN
\* and had already been through HALF_OPEN once with a probe counted.
C6_Witness ==
  /\ cb_event.op = "admit"
  /\ cb_event.from = "OPEN"
  /\ cb_state = "HALF_OPEN"
  /\ failures > failure_threshold
  /\ now - last_failure_time >= recovery_timeout

\* C7: while the breaker is HALF_OPEN, at most half_open_max_calls requests
\* have been admitted since it entered HALF_OPEN, for both breakers.
C7_HalfOpenLimit ==
  cb_state = "HALF_OPEN" => ho_admitted <= half_open_max_calls

\* C8: a failure recorded while the breaker is HALF_OPEN leaves it OPEN, for
\* both breakers, late recordings included.
C8_HalfOpenFailure ==
  (cb_event.op = "failure" /\ cb_event.from = "HALF_OPEN")
    => cb_state = "OPEN"

\* C9: the breaker goes from HALF_OPEN to CLOSED only once
\* half_open_max_calls successes were recorded since it entered HALF_OPEN,
\* and the failure counter is then 0, for both breakers.
C9_CloseAfterProbes ==
  (cb_event.from = "HALF_OPEN" /\ cb_state = "CLOSED")
    => (ho_successes >= half_open_max_calls /\ failures = 0)

\* C10: a success recorded while the breaker is CLOSED lowers the failure
\* counter by exactly one, never below 0, for both breakers.
C10_SuccessDecays ==
  (cb_event.op = "success" /\ cb_event.from = "CLOSED")
    => failures = Max(0, cb_event.fails - 1)

\* C11: the arrival of an HTTP 429 never raises the failure counter and never
\* changes the breaker's state, in Blocky._request and in
\* AsyncBlocky._request.
C11_ThrottleNotCounted ==
  [][cb_event'.throttled => (failures' = failures /\ cb_state' = cb_state)]_vars

\* C12: a request goes out to the exchange only in a step whose admission
\* check allowed it, and every answer to an admitted request other than an
\* HTTP 429 is recorded as a success or as a failure.
C12_AdmittedAndRecorded ==
  /\ cb_event.sent => cb_event.op = "admit"
  /\ (cb_event.op = "unrecorded") => cb_event.throttled


(***************************************************************************)
(* Order reconciliation                                                     *)
(***************************************************************************)

\* longest list of resting orders tried
MaxOrders == 2

\* prices of resting orders, in cents
OrderPrices == {300, 305}

\* quantities of resting orders, in hundredths
OrderQtys == {333, 400}

\* a resting order apart from its id
OrderShapes ==
  [side : {"buy", "sell"}, price : OrderPrices, quantity : OrderQtys,
   has_id : BOOLEAN]

\* targets of a pass: prices in cents, quantities in hundredths
TargetChoices ==
  { [buy_price |-> 300, buy_quantity |-> 333,
     sell_price |-> 310, sell_quantity |-> 333],
    [buy_price |-> 0, buy_quantity |-> 400,
     sell_price |-> 1, sell_quantity |-> 400] }

Abs(a) == IF a >= 0 THEN a ELSE 0 - a

\* trading_helpers.is_order_match: price within max(0.02, 2%) and quantity
\* within max(0.5, 10%) of the target, both strictly
IsOrderMatch(o, target_price, target_qty, side) ==
  /\ o.side = side
  /\ Abs(o.price - target_price) * 100 < Max(200, target_price * 2)
  /\ Abs(o.quantity - target_qty) * 10 < Max(500, target_qty)

\* is_match of bot.py: price within 0.001 and quantity within 0.01
IsMatch(o, target_price, target_qty, side) ==
  /\ o.side = side
  /\ Abs(o.price - target_price) * 10 < 1
  /\ Abs(o.quantity - target_qty) < 1

\* the matching rule of a revision
Matches(kind, o, target_price, target_qty, side) ==
  IF kind = "main" THEN IsOrderMatch(o, target_price, target_qty, side)
  ELSE IsMatch(o, target_price, target_qty, side)

\* the branch the loop of diff_orders takes for an order that has an id:
\* "keep" sets the side's active flag, "cancel" appends the id
Branch_IgnoreDesired(kind, o, t, d) ==
  IF o.side = "buy"
    THEN IF Matches(kind, o, t.buy_price, t.buy_quantity, "buy")
           THEN "keep" ELSE "cancel"
  ELSE IF o.side = "sell"
    THEN IF Matches(kind, o, t.sell_price, t.sell_quantity, "sell")
           THEN "keep" ELSE "cancel"
  ELSE "none"

Branch(kind, o, t, d) ==
  IF o.side = "buy"
    THEN IF d.buy /\ Matches(kind, o, t.buy_price, t.buy_quantity, "buy")
           THEN "keep" ELSE "cancel"
  ELSE IF o.side = "sell"
    THEN IF d.sell /\ Matches(kind, o, t.sell_price, t.sell_quantity, "sell")
           THEN "keep" ELSE "cancel"
  ELSE "none"

\* the ids of a list of orders
Ids(oo) == [i \in 1..Len(oo) |-> oo[i].id]

\* diff_orders: orders without an id are skipped
DiffOrders_CancelAll(kind, oo, t, d) ==
  LET seen == SelectSeq(oo, LAMBDA o : o.id # 0)
  IN  [orders_to_cancel |-> Ids(seen),
       buy_active |-> FALSE,
       sell_active |-> FALSE]

DiffOrders(kind, oo, t, d) ==
  LET seen == SelectSeq(oo, LAMBDA o : o.id # 0)
      Kept(side) == \E i \in 1..Len(seen) :
                      seen[i].side = side /\ Branch(kind, seen[i], t, d) = "keep"
  IN  [orders_to_cancel |->
         Ids(SelectSeq(seen, LAMBDA o : Branch(kind, o, t, d) = "cancel")),
       buy_active |-> Kept("buy"),
       sell_active |-> Kept("sell")]

\* the sides for which _process_market calls create_order
CreateSides_IgnoreActive(t, d, a, dry) ==
  { sd \in {"buy", "sell"} :
      /\ IF sd = "buy" THEN d.buy /\ t.buy_price > 0
                       ELSE d.sell /\ t.sell_price > 0
      /\ ~dry }

CreateSides(t, d, a, dry) ==
  { sd \in {"buy", "sell"} :
      /\ IF sd = "buy" THEN d.buy /\ ~a.buy /\ t.buy_price > 0
                       ELSE d.sell /\ ~a.sell /\ t.sell_price > 0
      /\ ~dry }

RecInit ==
  /\ rec_impl \in Impls
  /\ \E n \in 0..MaxOrders : \E sh \in [1..n -> OrderShapes] :
       open_orders = [i \in 1..n |->
                        [id |-> IF sh[i].has_id THEN i ELSE 0,
                         side |-> sh[i].side,
                         price |-> sh[i].price,
                         quantity |-> sh[i].quantity]]
  /\ target \in TargetChoices
  /\ desired \in [buy : BOOLEAN, sell : BOOLEAN]
  /\ dry_run \in BOOLEAN
  /\ orders_to_cancel = <<>>
  /\ active = [buy |-> FALSE, sell |-> FALSE]
  /\ cancel_calls = {}
  /\ create_calls = {}
  /\ rec_pc = "start"

\* a pass that is not exercised
RecIdle ==
  /\ rec_impl = "main"
  /\ open_orders = <<>>
  /\ target = [buy_price |-> 0, buy_quantity |-> 0,
               sell_price |-> 0, sell_quantity |-> 0]
  /\ desired = [buy |-> FALSE, sell |-> FALSE]
  /\ dry_run = FALSE
  /\ orders_to_cancel = <<>>
  /\ active = [buy |-> FALSE, sell |-> FALSE]
  /\ cancel_calls = {}
  /\ create_calls = {}
  /\ rec_pc = "done"

\* _process_market: the resting orders are compared with the targets
Diff ==
  /\ rec_pc = "start"
  /\ LET r == DiffOrders(rec_impl, open_orders, target, desired)
     IN  /\ orders_to_cancel' = r.orders_to_cancel
         /\ active' = [buy |-> r.buy_active, sell |-> r.sell_active]
  /\ rec_pc' = "diffed"
  /\ UNCHANGED <<rec_impl, open_orders, target, desired, dry_run,
                 cancel_calls, create_calls>>
  /\ UNCHANGED <<capVars, limVars, brkVars, passVars, simVars, priceVars,
                 healthVars, runVars, ordVars, walVars, exVars, reqVars>>

\* _process_market: cancel_order for every queued id, unless dry_run; a
\* failed cancellation is logged
CancelStale ==
  /\ rec_pc = "diffed"
  /\ cancel_calls' =
       IF dry_run THEN {}
       ELSE {orders_to_cancel[i] : i \in 1..Len(orders_to_cancel)}
  /\ rec_pc' = "cancelled"
  /\ UNCHANGED <<rec_impl, open_orders, target, desired, dry_run,
                 orders_to_cancel, active, create_calls>>
  /\ UNCHANGED <<capVars, limVars, brkVars, passVars, simVars, priceVars,
                 healthVars, runVars, ordVars, walVars, exVars, reqVars>>

\* _process_market: create_order for the sides that need one; a failed
\* creation is logged
CreateNew ==
  /\ rec_pc = "cancelled"
  /\ create_calls' = CreateSides(target, desired, active, dry_run)
  /\ rec_pc' = "done"
  /\ UNCHANGED <<rec_impl, open_orders, target, desired, dry_run,
                 orders_to_cancel, active, cancel_calls>>
  /\ UNCHANGED <<capVars, limVars, brkVars, passVars, simVars, priceVars,
                 healthVars, runVars, ordVars, walVars, exVars, reqVars>>

(***************************************************************************)
(* Claims about order reconciliation                                        *)
(***************************************************************************)

\* the id of order o was placed in orders_to_cancel
Queued(o) ==
  \E i \in 1..Len(orders_to_cancel) : orders_to_cancel[i] = o.id

\* order o is on a side that is desired and matches that side's target
WantedMatch(o) ==
  \/ /\ desired.buy
     /\ Matches(rec_impl, o, target.buy_price, target.buy_quantity, "buy")
  \/ /\ desired.sell
     /\ Matches(rec_impl, o, target.sell_price, target.sell_quantity, "sell")

SideActive(sd) == IF sd = "buy" THEN active.buy ELSE active.sell

SideDesired(sd) == IF sd = "buy" THEN desired.buy ELSE desired.sell

\* C13 as stated: a resting order whose side is desired and which matches
\* that side's target is never placed in orders_to_cancel, and whenever such
\* an order exists the side's active flag is true.
C13_Original ==
  rec_pc # "start" =>
    \A i \in 1..Len(open_orders) :
      WantedMatch(open_orders[i]) =>
        /\ ~Queued(open_orders[i])
        /\ SideActive(open_orders[i].side)

\* C13: a resting order whose side is desired and which matches that side's
\* target is never placed in orders_to_cancel, and whenever such an order
\* carries an id the side's active flag is true.
C13_MatchKept ==
  rec_pc # "start" =>
    \A i \in 1..Len(open_orders) :
      WantedMatch(open_orders[i]) =>
        /\ ~Queued(open_orders[i])
        /\ open_orders[i].id # 0 => SideActive(open_orders[i].side)

\* C13 witness: diff_orders kept a buy order that is within tolerance of the
\* target without being equal to it, and queued another order.
C13_Witness ==
  /\ rec_pc = "diffed"
  /\ rec_impl = "main"
  /\ active.buy
  /\ \E i, j \in 1..Len(open_orders) :
       /\ open_orders[i].side = "buy"
       /\ open_orders[i].id # 0
       /\ open_orders[i].price # target.buy_price
       /\ WantedMatch(open_orders[i])
       /\ ~Queued(open_orders[i])
       /\ Queued(open_orders[j])

\* C14 as stated: every resting order that is not a match of a desired side
\* is placed in orders_to_cancel, and the active flag of a side that is not
\* desired is false.
C14_Original ==
  rec_pc # "start" =>
    /\ \A i \in 1..Len(open_orders) :
         ~WantedMatch(open_orders[i]) => Queued(open_orders[i])
    /\ \A sd \in {"buy", "sell"} : ~SideDesired(sd) => ~SideActive(sd)

\* C14: every resting order that carries an id and is not a match of a
\* desired side is placed in orders_to_cancel, and the active flag of a side
\* that is not desired is false.
C14_StaleQueued ==
  rec_pc # "start" =>
    /\ \A i \in 1..Len(open_orders) :
         (open_orders[i].id # 0 /\ ~WantedMatch(open_orders[i]))
           => Queued(open_orders[i])
    /\ \A sd \in {"buy", "sell"} : ~SideDesired(sd) => ~SideActive(sd)

\* C14 witness: the buy side is not desired, and a resting buy order that
\* equals the buy target was queued for cancellation.
C14_Witness ==
  /\ rec_pc = "diffed"
  /\ ~desired.buy
  /\ ~active.buy
  /\ \E i \in 1..Len(open_orders) :
       /\ open_orders[i].side = "buy"
       /\ open_orders[i].price = target.buy_price
       /\ open_orders[i].quantity = target.buy_quantity
       /\ Queued(open_orders[i])

\* C15 as stated: create_order is called for a side only if the side is
\* desired and was reported not active, and never for a side that has a
\* matching resting order.
C15_Original ==
  \A sd \in create_calls :
    /\ SideDesired(sd)
    /\ ~SideActive(sd)
    /\ ~\E i \in 1..Len(open_orders) :
          open_orders[i].side = sd /\ WantedMatch(open_orders[i])

\* C15: create_order is called for a side only if the side is desired and
\* was reported not active, and never for a side that has a matching resting
\* order carrying an id.
C15_CreateGuard ==
  \A sd \in create_calls :
    /\ SideDesired(sd)
    /\ ~SideActive(sd)
    /\ ~\E i \in 1..Len(open_orders) :
          /\ open_orders[i].side = sd
          /\ open_orders[i].id # 0
          /\ WantedMatch(open_orders[i])

\* C15 witness: both sides are desired, the buy side has a matching resting
\* order, and the finished pass called create_order for the sell side only.
C15_Witness ==
  /\ rec_pc = "done"
  /\ desired.buy
  /\ desired.sell
  /\ active.buy
  /\ create_calls = {"sell"}
  /\ \E i \in 1..Len(open_orders) :
       open_orders[i].side = "buy" /\ WantedMatch(open_orders[i])

(***************************************************************************)
(* Market passes: periodic cycles and WebSocket events                      *)
(***************************************************************************)

\* most calls of place_orders_parallel followed
MaxCycles == 2

\* who starts a pass: place_orders_parallel or the WebSocket handler
Sources == {"cycle", "ws"}

\* what can be raised inside a pass: a transport error, a failed create or
\* cancel, CircuitBreakerOpen
ExceptionKinds == {"transport", "domain", "breaker_open"}

\* lock.locked()
Locked_Never(m) == FALSE

Locked(m) == market_locks[m] # "free"

\* the except Exception clause that closes the try block of _process_market
CaughtInPass_None(e) == FALSE

CaughtInPass(e) == e \in ExceptionKinds

\* the except Exception clause of place_orders_parallel
CaughtInCycle(e) == e \in ExceptionKinds

\* the task has returned
Finished(m, src) == tpc[m][src] \in {"dropped", "done", "errored"}

PassInit ==
  /\ market_locks = [m \in Markets |-> "free"]
  /\ tpc = [m \in Markets |-> [src \in Sources |-> "idle"]]
  /\ escaped = [m \in Markets |-> "none"]
  /\ run_pc = "sleeping"
  /\ cycles = 0
  /\ had_error = FALSE

\* run(): place_orders_parallel is called and gathers one _process_market
\* task per market
StartCycle ==
  /\ run_pc = "sleeping"
  /\ cycles < MaxCycles
  /\ run_pc' = "gathering"
  /\ tpc' = [m \in Markets |->
               IF tpc[m]["cycle"] \in {"running", "waiting"} THEN tpc[m]
               ELSE [tpc[m] EXCEPT !["cycle"] = "created"]]
  /\ UNCHANGED <<market_locks, escaped, cycles, had_error>>
  /\ UNCHANGED <<capVars, limVars, brkVars, recVars, simVars, priceVars,
                 healthVars, runVars, ordVars, walVars, exVars, reqVars>>

\* BlockyWebSocket.run_forever creates a task for the message of a market's
\* channel; _on_event_update calls _process_market
WsEvent(m) ==
  /\ run_pc # "ended"
  /\ tpc[m]["ws"] = "idle" \/ Finished(m, "ws")
  /\ tpc' = [tpc EXCEPT ![m]["ws"] = "created"]
  /\ UNCHANGED <<market_locks, escaped, run_pc, cycles, had_error>>
  /\ UNCHANGED <<capVars, limVars, brkVars, recVars, simVars, priceVars,
                 healthVars, runVars, ordVars, walVars, exVars, reqVars>>

\* _process_market: return when the market's lock is held, take it otherwise
PassEnter(m, src) ==
  /\ tpc[m][src] = "created"
  /\ IF Locked(m)
       THEN /\ tpc' = [tpc EXCEPT ![m][src] = "dropped"]
            /\ UNCHANGED market_locks
       ELSE IF market_locks[m] = "free"
         THEN /\ tpc' = [tpc EXCEPT ![m][src] = "running"]
              /\ market_locks' = [market_locks EXCEPT ![m] = src]
         ELSE /\ tpc' = [tpc EXCEPT ![m][src] = "waiting"]
              /\ UNCHANGED market_locks
  /\ UNCHANGED <<escaped, run_pc, cycles, had_error>>
  /\ UNCHANGED <<capVars, limVars, brkVars, recVars, simVars, priceVars,
                 healthVars, runVars, ordVars, walVars, exVars, reqVars>>

\* _process_market: the try block runs to its end or raises e, and the lock
\* is released
PassBody(m, src, e) ==
  /\ tpc[m][src] = "running"
  /\ LET result  == IF e = "none" THEN "done"
                    ELSE IF CaughtInPass(e) THEN "errored" ELSE "failed"
         waiters == {w \in Sources : tpc[m][w] = "waiting"}
     IN  /\ IF waiters = {}
              THEN /\ market_locks' = [market_locks EXCEPT ![m] = "free"]
                   /\ tpc' = [tpc EXCEPT ![m][src] = result]
              ELSE \E w \in waiters :
                     /\ market_locks' = [market_locks EXCEPT ![m] = w]
                     /\ tpc' = [tpc EXCEPT ![m][src] = result,
                                           ![m][w] = "running"]
         /\ escaped' = IF result = "failed" /\ src = "cycle"
                         THEN [escaped EXCEPT ![m] = e] ELSE escaped
  /\ had_error' = (had_error \/ (src = "cycle" /\ e # "none"))
  /\ UNCHANGED <<run_pc, cycles>>
  /\ UNCHANGED <<capVars, limVars, brkVars, recVars, simVars, priceVars,
                 healthVars, runVars, ordVars, walVars, exVars, reqVars>>

\* place_orders_parallel: asyncio.gather returns once every task has
\* returned, or raises the first exception that left a task; run() goes back
\* to sleep unless an exception leaves place_orders_parallel
GatherReturns ==
  /\ run_pc = "gathering"
  /\ \/ \A m \in Markets : Finished(m, "cycle")
     \/ \E m \in Markets : escaped[m] # "none"
  /\ run_pc' = IF \E m \in Markets :
                    escaped[m] # "none" /\ ~CaughtInCycle(escaped[m])
                 THEN "ended" ELSE "sleeping"
  /\ cycles' = cycles + 1
  /\ escaped' = [m \in Markets |-> "none"]
  /\ UNCHANGED <<market_locks, tpc, had_error>>
  /\ UNCHANGED <<capVars, limVars, brkVars, recVars, simVars, priceVars,
                 healthVars, runVars, ordVars, walVars, exVars, reqVars>>

\* the loop of a bot that is not exercised
PassIdle ==
  /\ market_locks = [m \in Markets |-> "free"]
  /\ tpc = [m \in Markets |-> [src \in Sources |-> "idle"]]
  /\ escaped = [m \in Markets |-> "none"]
  /\ run_pc = "sleeping"
  /\ cycles = MaxCycles
  /\ had_error = FALSE

(***************************************************************************)
(* Claims about market passes                                               *)
(***************************************************************************)

\* C16: for each market at most one _process_market pass is executing at any
\* time, whatever the interleaving of periodic cycles and WebSocket events,
\* and a call that finds the market's lock held returns without running and
\* never waits for the lock.
C16_OnePassPerMarket ==
  \A m \in Markets :
    /\ Cardinality({src \in Sources : tpc[m][src] = "running"}) <= 1
    /\ \A src \in Sources :
         /\ tpc[m][src] # "waiting"
         /\ tpc[m][src] = "running" => market_locks[m] = src

\* C16 witness: a WebSocket event of a market was dropped while the pass of
\* the periodic cycle holds that market's lock.
C16_Witness ==
  \E m \in Markets :
    /\ tpc[m]["cycle"] = "running"
    /\ tpc[m]["ws"] = "dropped"
    /\ market_locks[m] = "cycle"

\* C17: an exception raised while processing one market never leaves that
\* market's pass, place_orders_parallel returns only when every market's pass
\* of the cycle has returned, and run() never ends because of it.
C17_Isolation ==
  /\ run_pc # "ended"
  /\ \A m \in Markets : escaped[m] = "none" /\ tpc[m]["cycle"] # "failed"
  /\ (run_pc = "sleeping" /\ cycles > 0)
       => \A m \in Markets : Finished(m, "cycle")

\* C17 witness: after a cycle in which a pass raised, a later cycle is under
\* way in which one market's pass has raised and been logged while another
\* market's pass is running.
C17_Witness ==
  /\ cycles >= 1
  /\ had_error
  /\ run_pc = "gathering"
  /\ \E m1, m2 \in Markets :
       /\ tpc[m1]["cycle"] = "errored"
       /\ tpc[m2]["cycle"] = "running"

(***************************************************************************)
(* Allocation requests of a given cost                                      *)
(***************************************************************************)

\* number of concurrent allocation requests
NumRequests == 5

Requests == 1..NumRequests

\* the allocation logic of tests/test_capital_lock.py, of bot.py and of
\* src/main.py
SimImpls == {"test", "bot", "main"}

\* tracker balances tried, in 1/10000 of the quote asset
SeedChoices == {50000, 100000, 120000}

\* buy price (cents) and quantity (hundredths) of the requests: cost 5.0, 3.0
RequestChoices == {<<100, 500>>, <<100, 300>>}

\* locked funds of the requests, in 1/10000 of the quote asset
LockedFundsChoices == {0, 20000}

\* simulate_allocation / allocate of the test: current balance cur, cost c
AllocateTest_NoCheck(cur, c) ==
  [tracker |-> Max(0, cur - c), buy |-> TRUE, cost |-> c,
   drawn |-> cur - Max(0, cur - c)]

AllocateTest(cur, c) ==
  IF cur >= c
    THEN [tracker |-> Max(0, cur - c), buy |-> TRUE, cost |-> c,
          drawn |-> cur - Max(0, cur - c)]
    ELSE [tracker |-> cur, buy |-> FALSE, cost |-> 0, drawn |-> 0]

\* the cost of every request
RequestCost == request[1] * request[2]

SimInit ==
  /\ sim_impl \in SimImpls
  /\ seed \in SeedChoices
  /\ capital_tracker = seed
  /\ lock = 0
  /\ request \in RequestChoices
  /\ locked_funds \in LockedFundsChoices
  /\ sim_impl = "test" => locked_funds = 0
  /\ spc = [r \in Requests |-> "start"]
  /\ current = [r \in Requests |-> 0]
  /\ outcome = [r \in Requests |-> "none"]
  /\ taken = [r \in Requests |-> 0]

\* requests that are not exercised
SimIdle ==
  /\ sim_impl = "test"
  /\ seed = 0
  /\ capital_tracker = 0
  /\ lock = 0
  /\ request = <<0, 0>>
  /\ locked_funds = 0
  /\ spc = [r \in Requests |-> "done"]
  /\ current = [r \in Requests |-> 0]
  /\ outcome = [r \in Requests |-> "none"]
  /\ taken = [r \in Requests |-> 0]

\* async with lock: the tracker balance is read
EnterAllocation(r) ==
  /\ spc[r] = "start"
  /\ lock = 0
  /\ lock' = r
  /\ current' = [current EXCEPT ![r] = capital_tracker]
  /\ spc' = [spc EXCEPT ![r] = "locked"]
  /\ UNCHANGED <<sim_impl, seed, capital_tracker, request, locked_funds,
                 outcome, taken>>
  /\ UNCHANGED <<capVars, limVars, brkVars, recVars, passVars, priceVars,
                 healthVars, runVars, ordVars, walVars, exVars, reqVars>>

\* the decision, the write back of the tracker and the release
DecideAllocation(r) ==
  /\ spc[r] = "locked"
  /\ LET res == IF sim_impl = "test"
                  THEN AllocateTest(current[r], RequestCost)
                ELSE IF sim_impl = "bot"
                  THEN AllocateBot(current[r] + locked_funds,
                                   capital_tracker, request[1], request[2])
                ELSE AllocateMain(current[r], locked_funds, request[1],
                                  request[2])
     IN  /\ capital_tracker' = res.tracker
         /\ outcome' = [outcome EXCEPT ![r] =
                          IF ~res.buy THEN "refused"
                          ELSE IF res.cost = RequestCost THEN "full"
                          ELSE "part"]
         /\ taken' = [taken EXCEPT ![r] = res.drawn]
  /\ lock' = 0
  /\ spc' = [spc EXCEPT ![r] = "done"]
  /\ UNCHANGED <<sim_impl, seed, request, locked_funds, current>>
  /\ UNCHANGED <<capVars, limVars, brkVars, recVars, passVars, priceVars,
                 healthVars, runVars, ordVars, walVars, exVars, reqVars>>

(***************************************************************************)
(* Claims about allocation requests                                         *)
(***************************************************************************)

\* the requests that ended with the given outcome
Ended(o) == {r \in Requests : outcome[r] = o}

\* tracker 10.0, requests of 5.0 each, all of them finished
TenByFive ==
  /\ seed = 100000
  /\ RequestCost = 50000
  /\ \A r \in Requests : spc[r] = "done"

Min(a, b) == IF a <= b THEN a ELSE b

Sign(a) == IF a < 0 THEN -1 ELSE IF a > 0 THEN 1 ELSE 0

\* largest volatility estimate drawn, in halves
MaxVolatility == 3

\* largest inventory drawn below the saturation point, in quarters
MaxInventory == 3

\* SpreadConfig: the defaults, with base_spread and enabled as configured
SpreadConfigs ==
  [enabled : BOOLEAN,
   base_spread : {50, 300, 2000},
   volatility_multiplier : {2},
   inventory_impact : {200},
   min_spread : {100},
   max_spread : {1500}]

\* get_quick_volatility: zero without history, not bounded by 1
Volatilities == {50 * v : v \in 0..MaxVolatility} \cup {700}

\* base-asset inventory, either sign, small and very large
Inventories ==
  {25 * i : i \in (0 - MaxInventory)..MaxInventory} \cup {-1000000, 1000000}

\* imbalance in thousandths
Imbalance(inventory) ==
  IF Abs(inventory) < 1
    THEN 0
    ELSE LET diff == inventory - 0
             max_inventory == Max(Max(Abs(inventory), 0), 100) * 10
             ratio == Sign(diff) * ((Abs(diff) * 1000) \div max_inventory)
         IN  Max(-1000, Min(1000, ratio))

calculate_inventory_adjustment(config, inventory) ==
  LET imbalance == Imbalance(inventory)
      impact == config.inventory_impact
      adj == Sign(imbalance) * ((Abs(imbalance) * impact) \div 1000)
  IN  <<adj, 0 - adj>>

get_dynamic_spread_NoClamp(config, vol, inventory) ==
  IF ~config.enabled
    THEN <<config.base_spread, config.base_spread>>
    ELSE LET vol_adj == vol * config.volatility_multiplier
             inv == calculate_inventory_adjustment(config, inventory)
         IN  <<config.base_spread + vol_adj + inv[1],
               config.base_spread + vol_adj + inv[2]>>

get_dynamic_spread(config, vol, inventory) ==
  IF ~config.enabled
    THEN <<config.base_spread, config.base_spread>>
    ELSE LET base == config.base_spread
             vol_adj == vol * config.volatility_multiplier
             inv == calculate_inventory_adjustment(config, inventory)
             buy_spread == base + vol_adj + inv[1]
             sell_spread == base + vol_adj + inv[2]
         IN  <<Max(config.min_spread, Min(config.max_spread, buy_spread)),
               Max(config.min_spread, Min(config.max_spread, sell_spread))>>

\* before any call
PriceInit ==
  /\ fn = "none"
  /\ args = <<>>
  /\ ret = <<>>

\* no pricing call is exercised
PriceIdle ==
  /\ fn = "idle"
  /\ args = <<>>
  /\ ret = <<>>

\* await spread_calculator.get_dynamic_spread(market, inventory, ticker)
GetDynamicSpread ==
  /\ fn = "none"
  /\ \E config \in SpreadConfigs, vol \in Volatilities,
        inventory \in Inventories :
       /\ args' = [config |-> config, vol |-> vol, inventory |-> inventory]
       /\ ret' = get_dynamic_spread(config, vol, inventory)
  /\ fn' = "get_dynamic_spread"
  /\ UNCHANGED <<capVars, limVars, brkVars, recVars, passVars, simVars,
                 healthVars, runVars, ordVars, walVars, exVars, reqVars>>

InSpreadRange ==
  /\ args.config.min_spread <= ret[1]
  /\ ret[1] <= args.config.max_spread
  /\ args.config.min_spread <= ret[2]
  /\ ret[2] <= args.config.max_spread

\* C21 as stated: both spreads returned by get_dynamic_spread lie in
\* [min_spread, max_spread] for every volatility, inventory and base spread
C21_Original ==
  (fn = "get_dynamic_spread") => InSpreadRange

\* C21: with dynamic spread enabled, both spreads returned lie in
\* [min_spread, max_spread] for every volatility, inventory and base
\* spread; when disabled both equal base_spread, whatever its value
C21_ClampedWhenEnabled ==
  (fn = "get_dynamic_spread") =>
     IF args.config.enabled
       THEN InSpreadRange
       ELSE ret = <<args.config.base_spread, args.config.base_spread>>

C21_Witness ==
  /\ fn = "get_dynamic_spread"
  /\ args.config.enabled
  /\ args.inventory = 1000000
  /\ args.vol = 700
  /\ args.config.base_spread = 2000
  /\ ret = <<1500, 1500>>

\* ---- calculate_quotes ------------------------------------------------

\* smallest mid prices drawn, in cents
MaxMidCents == 3

\* fair prices, in thousandths: a few cents, 0.50, 2.00, 10.00, 10.01, 50.00
MidPrices == {10 * c : c \in 1..MaxMidCents} \cup {500, 2000, 10000, 10010, 50000}

\* spreads handed to calculate_quotes, in basis points
QuoteSpreads == {100, 300, 500, 1500}

\* round(x, 2) of x = n / d thousandths, as thousandths
Round2(n, d) == 10 * RoundHalfEven(n, 10 * d)

\* a decimal tie of round(x, 2): the binary value of x decides the result
IsTie(n, d) == 2 * (n % (10 * d)) = 10 * d

calculate_quotes_Swapped(mid_price, buy_spread, sell_spread) ==
  <<Round2(mid_price * (20000 + buy_spread), 20000),
    Round2(mid_price * (20000 - sell_spread), 20000)>>

calculate_quotes(mid_price, buy_spread, sell_spread) ==
  LET buy_px == Round2(mid_price * (20000 - buy_spread), 20000)
      sell_px == Round2(mid_price * (20000 + sell_spread), 20000)
  IN  <<buy_px, sell_px>>

\* buy_price, sell_price = calculate_quotes(mid_price, buy_spread, sell_spread)
CalculateQuotes ==
  /\ fn = "none"
  /\ \E mid_price \in MidPrices, buy_spread \in QuoteSpreads,
        sell_spread \in QuoteSpreads :
       /\ ~IsTie(mid_price * (20000 - buy_spread), 20000)
       /\ ~IsTie(mid_price * (20000 + sell_spread), 20000)
       /\ args' = [mid_price |-> mid_price, buy_spread |-> buy_spread,
                   sell_spread |-> sell_spread]
       /\ ret' = calculate_quotes(mid_price, buy_spread, sell_spread)
  /\ fn' = "calculate_quotes"
  /\ UNCHANGED <<capVars, limVars, brkVars, recVars, passVars, simVars,
                 healthVars, runVars, ordVars, walVars, exVars, reqVars>>

\* the nearest cent to mid x (1 -/+ spread / 2), by distance
NearestCent(price, mid_price, signed_spread) ==
  /\ price % 10 = 0
  /\ 2 * Abs(20000 * price - mid_price * (20000 + signed_spread)) <= 200000

QuotesRounded ==
  /\ NearestCent(ret[1], args.mid_price, 0 - args.buy_spread)
  /\ NearestCent(ret[2], args.mid_price, args.sell_spread)

\* C25 as stated: calculate_quotes returns round(mid x (1 -/+ spread/2), 2)
\* and, for mid > 0 and positive spreads, buy_price < mid < sell_price
C25_Original ==
  (fn = "calculate_quotes") =>
     /\ QuotesRounded
     /\ ret[1] < args.mid_price
     /\ args.mid_price < ret[2]

\* C25: calculate_quotes returns round(mid x (1 -/+ spread/2), 2); for
\* mid > 0 and positive spreads buy_price <= sell_price, and
\* buy_price < mid < sell_price whenever mid x spread / 2 exceeds half a
\* cent on both sides
C25_QuotesAroundMid ==
  (fn = "calculate_quotes") =>
     /\ QuotesRounded
     /\ ret[1] <= ret[2]
     /\ (/\ args.mid_price * args.buy_spread > 100000
         /\ args.mid_price * args.sell_spread > 100000)
          => (ret[1] < args.mid_price /\ args.mid_price < ret[2])

C25_Witness ==
  /\ fn = "calculate_quotes"
  /\ args = [mid_price |-> 10000, buy_spread |-> 500, sell_spread |-> 500]
  /\ ret = <<9750, 10250>>

\* ---- apply_pennying --------------------------------------------------

\* price levels drawn on each side of the margin limit, in ticks of 0.01
MaxBookTicks == 2

\* config.trading.min_spread_ticks: 0.001 and the default 0.01
MinSpreadTicks == {1, 10}

\* mid prices of the quoted markets
PennyMids == {500, 10000, 10010}

\* candidates are what calculate_quotes hands over
Candidates(mid_price) ==
  {calculate_quotes(mid_price, bs, ss) : bs \in QuoteSpreads, ss \in QuoteSpreads}

\* highest whole-cent price not above 0.99 x mid, lowest not below 1.01 x mid
BidLevel(mid_price) == 10 * ((mid_price * 99) \div 1000)
AskLevel(mid_price) == 10 * ((mid_price * 101 + 999) \div 1000)

Bids(mid_price) ==
  {0, 10 * ((mid_price * 98) \div 1000)}
    \cup {BidLevel(mid_price) - 10 * k : k \in -1..MaxBookTicks}

Asks(mid_price) ==
  {0, 10 * ((mid_price * 102) \div 1000)}
    \cup {AskLevel(mid_price) + 10 * k : k \in -1..MaxBookTicks}

None == [none |-> TRUE]

Tickers(mid_price) ==
  {None} \cup [bid : Bids(mid_price), ask : Asks(mid_price)]

\* the bot's own resting orders
OwnOrders(mid_price) ==
  SUBSET {[side |-> "buy", price |-> BidLevel(mid_price) - 10],
          [side |-> "buy", price |-> 10 * ((mid_price * 98) \div 1000)],
          [side |-> "sell", price |-> AskLevel(mid_price) + 10]}

RECURSIVE SetMax(_)
SetMax(S) ==
  IF S = {} THEN 0
  ELSE LET x == CHOOSE y \in S : TRUE
       IN  Max(x, SetMax(S \ {x}))

RECURSIVE SetMin(_)
SetMin(S) ==
  IF S = {} THEN 0
  ELSE LET x == CHOOSE y \in S : TRUE
           rest == SetMin(S \ {x})
       IN  IF rest = 0 \/ x < rest THEN x ELSE rest

my_best_bid(orders) == SetMax({o.price : o \in {q \in orders : q.side = "buy"}})
my_best_ask(orders) == SetMin({o.price : o \in {q \in orders : q.side = "sell"}})

\* best bid below MAX_BUY = mid x 0.99, best ask above MIN_SELL = mid x 1.01
BelowMaxBuy(price, mid_price) == price * 100 < mid_price * 99
AboveMinSell(price, mid_price) == price * 100 > mid_price * 101

PennyBuy_NoMargin(buy_px, mid_price, ticker, orders) ==
  IF ticker = None THEN buy_px
  ELSE IF ticker.bid > buy_px
    THEN IF ticker.bid # my_best_bid(orders)
           THEN ticker.bid + 10
           ELSE ticker.bid
    ELSE buy_px

PennyBuy(buy_px, mid_price, ticker, orders) ==
  IF ticker = None THEN buy_px
  ELSE LET best_bid == ticker.bid
           is_our_bid == Abs(best_bid - my_best_bid(orders)) < 1
       IN  IF best_bid > buy_px /\ BelowMaxBuy(best_bid, mid_price)
             THEN IF ~is_our_bid THEN best_bid + 10 ELSE best_bid
             ELSE buy_px

PennySell(sell_px, mid_price, ticker, orders) ==
  IF ticker = None THEN sell_px
  ELSE LET best_ask == ticker.ask
           is_our_ask == /\ Abs(best_ask - my_best_ask(orders)) < 1
                         /\ my_best_ask(orders) > 0
       IN  IF /\ best_ask > 0
              /\ (best_ask < sell_px \/ sell_px = 0)
              /\ AboveMinSell(best_ask, mid_price)
             THEN IF ~is_our_ask THEN best_ask - 10 ELSE best_ask
             ELSE sell_px

\* the minimum-spread floor and the final rounding
EnforceSpread(buy_px, sell_px, min_spread_ticks) ==
  IF buy_px >= sell_px
    THEN LET lowered == buy_px - min_spread_ticks
             buy == IF lowered < 0 THEN 0 ELSE lowered
             current_spread == sell_px - buy
             sell == IF current_spread < min_spread_ticks
                       THEN sell_px + (min_spread_ticks - current_spread)
                       ELSE sell_px
         IN  <<Round2(buy, 1), Round2(sell, 1)>>
    ELSE <<buy_px, sell_px>>

apply_pennying(buy_px, sell_px, mid_price, ticker, orders, min_spread_ticks) ==
  LET pennied ==
        <<PennyBuy(buy_px, mid_price, ticker, orders),
          PennySell(sell_px, mid_price, ticker, orders)>>
      final == EnforceSpread(pennied[1], pennied[2], min_spread_ticks)
  IN  [pennied |-> pennied, buy_price |-> final[1], sell_price |-> final[2]]

\* buy_price, sell_price = apply_pennying(buy_price, sell_price, mid_price,
\*                                        ticker, open_orders, MIN_SPREAD_TICKS)
ApplyPennying ==
  /\ fn = "none"
  /\ \E mid_price \in PennyMids, min_spread_ticks \in MinSpreadTicks :
       \E candidate \in Candidates(mid_price), ticker \in Tickers(mid_price),
          orders \in OwnOrders(mid_price) :
         /\ args' = [buy_price |-> candidate[1], sell_price |-> candidate[2],
                     mid_price |-> mid_price, ticker |-> ticker,
                     open_orders |-> orders,
                     min_spread_ticks |-> min_spread_ticks]
         /\ ret' = apply_pennying(candidate[1], candidate[2], mid_price,
                                     ticker, orders, min_spread_ticks)
  /\ fn' = "apply_pennying"
  /\ UNCHANGED <<capVars, limVars, brkVars, recVars, passVars, simVars,
                 healthVars, runVars, ordVars, walVars, exVars, reqVars>>

\* C22: for every input and every min_spread_ticks > 0 the prices returned
\* by apply_pennying satisfy sell_price > buy_price and buy_price >= 0
C22_SpreadFloor ==
  (fn = "apply_pennying") =>
     /\ ret.sell_price > ret.buy_price
     /\ ret.buy_price >= 0

\* the ticker's best bid lies strictly between the candidate buy price and
\* 0.99 x mid
BidInPennyRange ==
  /\ args.ticker # None
  /\ args.buy_price < args.ticker.bid
  /\ 100 * args.ticker.bid < 99 * args.mid_price

\* the best bid is the bot's own best resting bid
BidIsOurs == args.ticker.bid = my_best_bid(args.open_orders)

\* the buy price the pennying rule of C23 prescribes
PennyRuleBuy ==
  IF BidInPennyRange
    THEN IF BidIsOurs THEN args.ticker.bid ELSE args.ticker.bid + 10
    ELSE args.buy_price

\* C23 as stated: the buy price apply_pennying returns is b + 0.01 when
\* candidate < b < 0.99 x mid and b is not the bot's own best bid, b when
\* it is, and the candidate in every other case
C23_Original ==
  (fn = "apply_pennying") => ret.buy_price = PennyRuleBuy

\* C23: the buy price after the pennying step is b + 0.01 when
\* candidate < b < 0.99 x mid and b is not the bot's own best bid, b when
\* it is, and the candidate in every other case; apply_pennying returns
\* that price whenever it is below the sell price after the sell-side
\* pennying step, and otherwise the price the minimum-spread floor
\* derives from it: lowered by min_spread_ticks, not below 0, rounded
C23_PennyRuleThenFloor ==
  (fn = "apply_pennying") =>
     /\ ret.pennied[1] = PennyRuleBuy
     /\ (ret.pennied[1] < ret.pennied[2])
          => ret.buy_price = PennyRuleBuy
     /\ (ret.pennied[1] >= ret.pennied[2])
          => ret.buy_price =
               Round2(Max(0, PennyRuleBuy - args.min_spread_ticks), 1)

C23_Witness ==
  /\ fn = "apply_pennying"
  /\ args.mid_price = 10000
  /\ args.buy_price = 9750
  /\ args.ticker # None
  /\ args.ticker.bid = 9800
  /\ args.open_orders = {}
  /\ ret.buy_price = 9810

\* C24: whenever apply_pennying raises the buy price above its candidate
\* the ret is at most 0.99 x mid, and whenever it lowers the sell
\* price below its candidate the ret is at least 1.01 x mid
C24_MarginKept ==
  (fn = "apply_pennying") =>
     /\ (ret.buy_price > args.buy_price)
          => 100 * ret.buy_price <= 99 * args.mid_price
     /\ (ret.sell_price < args.sell_price)
          => 100 * ret.sell_price >= 101 * args.mid_price

\* ---- PriceModel.calculate_fair_price ---------------------------------
\* Supplies are in halves of an item, base prices in cents, the multiplier
\* in hundredths, fair prices in 1/10000 of the quote unit.

\* _calculate_chunks(): int(10352 * 4976 / 256)
total_chunks == 201217

\* circulating-supply levels drawn, as fractions of the total supply
SupplySteps == 4

PricedMarkets == {"diam_iron", "obsn_iron", "reds_iron", "unknown_iron"}

\* "unknown_iron" has a configured base price and no supply mapping
MARKET_MAPPING == {"diam_iron", "obsn_iron", "reds_iron"}

\* _estimate_supply(market), in halves
world_supply(market) ==
  IF market = "diam_iron" THEN total_chunks * 3 * 2
  ELSE IF market = "reds_iron" THEN total_chunks * 25 * 2
  ELSE IF market = "obsn_iron" THEN total_chunks
  ELSE 2

\* base_prices.get(market, 1.0), in cents
base_prices(market) ==
  IF market = "diam_iron" THEN 5000
  ELSE IF market = "obsn_iron" THEN 250
  ELSE IF market = "unknown_iron" THEN 500
  ELSE 100

\* supplies.get(market, 0): whole items, as the metrics endpoint reports
Circulating(market) ==
  LET total == world_supply(market)
  IN  {(total * k) \div (2 * SupplySteps) : k \in 0..(SupplySteps + 1)}
        \cup {(total * 19) \div 40 + j : j \in -1..1}
        \cup {total \div 2 + j : j \in -1..1}

calculate_fair_price_Cap40(market, circulating) ==
  IF market \notin MARKET_MAPPING THEN 0
  ELSE LET total_possible == world_supply(market)
           difference == total_possible - 2 * circulating
           remaining == IF difference <= 0 THEN 2 ELSE difference
           multiplier == (total_possible * 100) \div remaining
       IN  IF total_possible > 40 * remaining
             THEN base_prices(market) * 4000
             ELSE base_prices(market) * multiplier

calculate_fair_price(market, circulating) ==
  IF market \notin MARKET_MAPPING THEN 0
  ELSE LET total_possible == world_supply(market)
           difference == total_possible - 2 * circulating
           remaining == IF difference <= 0 THEN 2 ELSE difference
           multiplier == (total_possible * 100) \div remaining
           base == base_prices(market)
       IN  IF total_possible > 20 * remaining
             THEN base * 2000
             ELSE base * multiplier

\* mid_price = price_model.calculate_fair_price(market)
CalculateFairPrice ==
  /\ fn = "none"
  /\ \E market \in PricedMarkets :
       \E circulating \in Circulating(market) :
         /\ args' = [market |-> market, circulating |-> circulating]
         /\ ret' = calculate_fair_price(market, circulating)
  /\ fn' = "calculate_fair_price"
  /\ UNCHANGED <<capVars, limVars, brkVars, recVars, passVars, simVars,
                 healthVars, runVars, ordVars, walVars, exVars, reqVars>>

\* base_price x min(total / max(total - circulating, 1), 20)
ScarcityPrice(market, circulating) ==
  LET total == world_supply(market)
      left == Max(total - 2 * circulating, 2)
  IN  IF total >= 20 * left
        THEN base_prices(market) * 2000
        ELSE base_prices(market) * ((total * 100) \div left)

\* C26: calculate_fair_price returns 0 for a market without supply
\* mapping and otherwise base_price x min(total / max(total - circ, 1), 20),
\* which never exceeds 20 x base_price
C26_FairPrice ==
  (fn = "calculate_fair_price") =>
     IF args.market \notin MARKET_MAPPING
       THEN ret = 0
       ELSE /\ ret = ScarcityPrice(args.market, args.circulating)
            /\ ret <= 20 * base_prices(args.market) * 100

C26_Witness ==
  /\ fn = "calculate_fair_price"
  /\ args.market = "obsn_iron"
  /\ world_supply("obsn_iron") - 2 * args.circulating = 1
  /\ ret = 20 * 250 * 100

\* ---------------------------------------------------------------------
\* PriceModel health: supply cache, failure counter, /health endpoint
\* Time is in ticks of 150 seconds.
\* ---------------------------------------------------------------------

\* last clock value
MaxClock == 4

\* threads of the executor running calculate_fair_price at once (bot.py)
NumFetchers == 2

\* largest value of the failure counter that is followed
MaxFailures == 4

Fetchers == 1..NumFetchers

BotKinds == {"bot", "main"}

\* _cache_ttl = 60 s: a cache is valid within the tick that filled it
CacheTtl == 1

\* _stale_threshold = 300 s
StaleThreshold == 2

CircuitStates == {"CLOSED", "OPEN", "HALF_OPEN"}

FetchIdle == [pc |-> "idle", current_time |-> 0, cache_age |-> 0]

NoResponse ==
  [status |-> "none", http |-> 0, metrics_healthy |-> TRUE,
   circuit_breaker |-> "CLOSED"]

HealthInit ==
  /\ bot_kind \in BotKinds
  /\ clock = 1
  /\ _metrics_cache = FALSE
  /\ _metrics_cache_time = 0
  /\ _using_stale_cache = FALSE
  /\ _consecutive_failures = 0
  /\ served_age = -1
  /\ last_fetch = "none"
  /\ fetcher = [f \in Fetchers |-> FetchIdle]
  /\ response = NoResponse

\* no price model is exercised
HealthIdle ==
  /\ bot_kind = "bot"
  /\ clock = 0
  /\ _metrics_cache = FALSE
  /\ _metrics_cache_time = 0
  /\ _using_stale_cache = FALSE
  /\ _consecutive_failures = 0
  /\ served_age = -1
  /\ last_fetch = "none"
  /\ fetcher = [f \in Fetchers |-> FetchIdle]
  /\ response = NoResponse

is_healthy == ~_using_stale_cache /\ _consecutive_failures < 3

CacheValid(t) == _metrics_cache /\ t - _metrics_cache_time < CacheTtl

CacheAge(t) == IF _metrics_cache_time > 0 THEN t - _metrics_cache_time ELSE 0

\* age of self._metrics_cache when it is returned, -1 for {}
ReturnedAge == IF _metrics_cache THEN clock - _metrics_cache_time ELSE -1

\* bot.py, in an executor thread: the cache is valid and returned, or the
\* call computes cache_age
FetchBegin(f) ==
  /\ bot_kind = "bot"
  /\ fetcher[f].pc = "idle"
  /\ IF CacheValid(clock)
       THEN /\ served_age' = ReturnedAge
            /\ last_fetch' = "cached"
            /\ UNCHANGED fetcher
       ELSE /\ fetcher' = [fetcher EXCEPT ![f] =
                 [pc |-> "aged", current_time |-> clock,
                  cache_age |-> CacheAge(clock)]]
            /\ UNCHANGED <<served_age, last_fetch>>
  /\ UNCHANGED <<bot_kind, clock, _metrics_cache, _metrics_cache_time,
                 _using_stale_cache, _consecutive_failures, response>>
  /\ UNCHANGED <<capVars, limVars, brkVars, recVars, passVars, simVars,
                 priceVars, runVars, ordVars, walVars, exVars, reqVars>>

\* the stale flag is written from the age computed before
FetchFlag(f) ==
  /\ fetcher[f].pc = "aged"
  /\ _using_stale_cache' =
       (fetcher[f].cache_age > StaleThreshold /\ _metrics_cache)
  /\ fetcher' = [fetcher EXCEPT ![f].pc = "fetching"]
  /\ UNCHANGED <<bot_kind, clock, _metrics_cache, _metrics_cache_time,
                 _consecutive_failures, served_age, last_fetch, response>>
  /\ UNCHANGED <<capVars, limVars, brkVars, recVars, passVars, simVars,
                 priceVars, runVars, ordVars, walVars, exVars, reqVars>>

\* client.get_supply_metrics() answers, answers with invalid data, or raises
FetchEnd(f, fetched) ==
  /\ fetcher[f].pc = "fetching"
  /\ IF fetched = "ok"
       THEN /\ _metrics_cache' = TRUE
            /\ _metrics_cache_time' = fetcher[f].current_time
            /\ _consecutive_failures' = 0
            /\ _using_stale_cache' = FALSE
            /\ served_age' = 0
            /\ last_fetch' = "ok"
       ELSE /\ _consecutive_failures < MaxFailures
            /\ _consecutive_failures' = _consecutive_failures + 1
            /\ served_age' = ReturnedAge
            /\ last_fetch' = "failed"
            /\ UNCHANGED <<_metrics_cache, _metrics_cache_time,
                           _using_stale_cache>>
  /\ fetcher' = [fetcher EXCEPT ![f] = FetchIdle]
  /\ UNCHANGED <<bot_kind, clock, response>>
  /\ UNCHANGED <<capVars, limVars, brkVars, recVars, passVars, simVars,
                 priceVars, runVars, ordVars, walVars, exVars, reqVars>>

\* src/main.py, on the event loop: the whole call in one step; AsyncBlocky's
\* get_supply_metrics() takes no time_range, so the call raises TypeError
FetchOnLoop ==
  /\ bot_kind = "main"
  /\ ~CacheValid(clock)
  /\ _consecutive_failures < MaxFailures
  /\ _using_stale_cache' = (CacheAge(clock) > StaleThreshold /\ _metrics_cache)
  /\ _consecutive_failures' = _consecutive_failures + 1
  /\ served_age' = ReturnedAge
  /\ last_fetch' = "failed"
  /\ UNCHANGED <<bot_kind, clock, _metrics_cache, _metrics_cache_time,
                 fetcher, response>>
  /\ UNCHANGED <<capVars, limVars, brkVars, recVars, passVars, simVars,
                 priceVars, runVars, ordVars, walVars, exVars, reqVars>>

\* no call of get_circulating_supply is under way
FetchesDone == \A f \in Fetchers : fetcher[f].pc = "idle"

\* 150 seconds pass; a request lasts far less and does not span a tick
HealthTick ==
  /\ FetchesDone
  /\ clock < MaxClock
  /\ clock' = clock + 1
  /\ UNCHANGED <<bot_kind, _metrics_cache, _metrics_cache_time,
                 _using_stale_cache, _consecutive_failures, served_age,
                 last_fetch, fetcher, response>>
  /\ UNCHANGED <<capVars, limVars, brkVars, recVars, passVars, simVars,
                 priceVars, runVars, ordVars, walVars, exVars, reqVars>>

\* the JSON answer of health_handler for what it read
health_handler(kind, state, metrics_healthy) ==
  IF kind = "main"
    THEN \* AsyncRateLimiter has no get_stats(): AttributeError, caught
         [status |-> "error", http |-> 500,
          metrics_healthy |-> metrics_healthy, circuit_breaker |-> state]
    ELSE LET healthy == state # "OPEN" /\ metrics_healthy
         IN  [status |-> IF healthy THEN "healthy" ELSE "degraded",
              http |-> IF healthy THEN 200 ELSE 503,
              metrics_healthy |-> metrics_healthy,
              circuit_breaker |-> state]

\* GET /health while the breaker is in any of its states
HealthCheck ==
  /\ \E state \in CircuitStates :
       response' = health_handler(bot_kind, state, is_healthy)
  /\ UNCHANGED <<bot_kind, clock, _metrics_cache, _metrics_cache_time,
                 _using_stale_cache, _consecutive_failures, served_age,
                 last_fetch, fetcher>>
  /\ UNCHANGED <<capVars, limVars, brkVars, recVars, passVars, simVars,
                 priceVars, runVars, ordVars, walVars, exVars, reqVars>>

\* after the fetches made so far, is_healthy() is false exactly when the
\* last call returned a cache older than the staleness threshold or the
\* last 3 fetches failed
HealthyExactly ==
  FetchesDone =>
    (~is_healthy <=>
       (served_age > StaleThreshold \/ _consecutive_failures >= 3))

\* the last fetch succeeded: is_healthy() is true
SuccessRestores ==
  (FetchesDone /\ last_fetch = "ok") => is_healthy

\* the endpoint answers degraded/503 when is_healthy() was false or the
\* breaker OPEN, and healthy/200 otherwise
EndpointReports ==
  (response.status # "none") =>
     IF ~response.metrics_healthy \/ response.circuit_breaker = "OPEN"
       THEN response.status = "degraded" /\ response.http = 503
       ELSE response.status = "healthy" /\ response.http = 200

\* C27: after any sequence of supply fetches is_healthy() is false exactly
\* when a cache older than the staleness threshold is served or at least 3
\* fetches in a row failed, a successful fetch makes it true again, and
\* the health endpoint reports degraded/503 when is_healthy() is false or
\* the breaker is OPEN and healthy/200 otherwise
C27_HealthPropagates ==
  /\ HealthyExactly
  /\ SuccessRestores
  /\ EndpointReports

\* ---------------------------------------------------------------------
\* run(): startup attempts, trading loop, shutdown
\* ---------------------------------------------------------------------

\* startup attempts that are told apart
MaxAttempts == 3

\* place_orders_parallel calls that are told apart
MaxRounds == 2

StartupPhases == {"fetch_markets", "cleanup", "wallets", "retry_sleep"}

StartedPhases == {"ws_setup", "seeding", "trading"}

RunInit ==
  /\ run_kind \in BotKinds
  /\ run_dry \in BOOLEAN
  /\ sent_kinds = {}
  /\ phase = "fetch_markets"
  /\ attempts = 0
  /\ markets \in (IF run_kind = "bot" THEN SUBSET Markets ELSE {{}})
  /\ locks_for = markets
  /\ wallets = FALSE
  /\ attempt_ok = {}
  /\ rounds = 0
  /\ end_cause = "none"
  /\ sweeps = 0
  /\ sweep_failed = FALSE
  /\ client_closed = FALSE
  /\ ws_closed = FALSE

\* run() is not exercised
RunIdle ==
  /\ run_kind = "main"
  /\ run_dry = FALSE
  /\ sent_kinds = {}
  /\ phase = "idle"
  /\ attempts = 0
  /\ markets = {}
  /\ locks_for = {}
  /\ wallets = FALSE
  /\ attempt_ok = {}
  /\ rounds = 0
  /\ end_cause = "none"
  /\ sweeps = 0
  /\ sweep_failed = FALSE
  /\ client_closed = FALSE
  /\ ws_closed = FALSE

\* self.markets = _fetch_markets(); retry when empty, else one lock per market
FetchMarkets(found) ==
  /\ phase = "fetch_markets"
  /\ attempts' = Min(attempts + 1, MaxAttempts)
  /\ markets' = found
  /\ IF found = {}
       THEN /\ phase' = "retry_sleep"
            /\ attempt_ok' = {}
            /\ UNCHANGED locks_for
       ELSE /\ locks_for' = found
            /\ attempt_ok' = {"markets", "locks"}
            /\ phase' = "cleanup"
  /\ UNCHANGED <<run_kind, run_dry, sent_kinds,
                 wallets, rounds, end_cause, sweeps,
                 sweep_failed, client_closed, ws_closed>>
  /\ UNCHANGED <<capVars, limVars, brkVars, recVars, passVars, simVars,
                 priceVars, healthVars, ordVars, walVars, exVars, reqVars>>

\* client.cancel_orders() unless dry_run; an exception ends the attempt
CancelOnStart(answer) ==
  /\ phase = "cleanup"
  /\ run_dry => answer = "ok"
  /\ phase' = IF answer = "ok" THEN "wallets" ELSE "retry_sleep"
  /\ sent_kinds' = IF run_dry THEN sent_kinds
                   ELSE sent_kinds \cup {"cancel_orders"}
  /\ UNCHANGED <<run_kind, run_dry, attempts, markets, locks_for, wallets,
                 attempt_ok, rounds, end_cause, sweeps, sweep_failed,
                 client_closed, ws_closed>>
  /\ UNCHANGED <<capVars, limVars, brkVars, recVars, passVars, simVars,
                 priceVars, healthVars, ordVars, walVars, exVars, reqVars>>

UpdateWallets_NoCheck(got) ==
  /\ phase = "wallets"
  /\ wallets' = IF got = "wallets" THEN TRUE
                ELSE IF got = "empty" THEN FALSE ELSE wallets
  /\ attempt_ok' = IF got = "wallets" THEN attempt_ok \cup {"wallets"}
                   ELSE attempt_ok
  /\ phase' = "ws_setup"
  /\ UNCHANGED <<run_kind, run_dry, sent_kinds,
                 attempts, markets, locks_for, rounds,
                 end_cause, sweeps, sweep_failed, client_closed, ws_closed>>
  /\ UNCHANGED <<capVars, limVars, brkVars, recVars, passVars, simVars,
                 priceVars, healthVars, ordVars, walVars, exVars, reqVars>>

\* _update_wallets() stores the answer, or keeps self.wallets when the call
\* fails; the loop is left when self.wallets is not empty
UpdateWallets(got) ==
  /\ phase = "wallets"
  /\ wallets' = IF got = "wallets" THEN TRUE
                ELSE IF got = "empty" THEN FALSE ELSE wallets
  /\ attempt_ok' = IF got = "wallets" THEN attempt_ok \cup {"wallets"}
                   ELSE attempt_ok
  /\ phase' = IF wallets' THEN "ws_setup" ELSE "retry_sleep"
  /\ UNCHANGED <<run_kind, run_dry, sent_kinds,
                 attempts, markets, locks_for, rounds,
                 end_cause, sweeps, sweep_failed, client_closed, ws_closed>>
  /\ UNCHANGED <<capVars, limVars, brkVars, recVars, passVars, simVars,
                 priceVars, healthVars, ordVars, walVars, exVars, reqVars>>

\* asyncio.sleep(5) or asyncio.sleep(30) is over: while True goes round
Retry ==
  /\ phase = "retry_sleep"
  /\ phase' = "fetch_markets"
  /\ UNCHANGED <<run_kind, run_dry, sent_kinds,
                 attempts, markets, locks_for, wallets,
                 attempt_ok, rounds, end_cause, sweeps, sweep_failed,
                 client_closed, ws_closed>>
  /\ UNCHANGED <<capVars, limVars, brkVars, recVars, passVars, simVars,
                 priceVars, healthVars, ordVars, walVars, exVars, reqVars>>

\* the task is cancelled while startup awaits: run() raises CancelledError
CancelledInStartup ==
  /\ phase \in StartupPhases
  /\ phase' = "aborted"
  /\ UNCHANGED <<run_kind, run_dry, sent_kinds,
                 attempts, markets, locks_for, wallets,
                 attempt_ok, rounds, end_cause, sweeps, sweep_failed,
                 client_closed, ws_closed>>
  /\ UNCHANGED <<capVars, limVars, brkVars, recVars, passVars, simVars,
                 priceVars, healthVars, ordVars, walVars, exVars, reqVars>>

\* WebSocket and health endpoint setup; their failures are logged
ConnectWebSocket ==
  /\ phase = "ws_setup"
  /\ phase' = "seeding"
  /\ UNCHANGED <<run_kind, run_dry, sent_kinds,
                 attempts, markets, locks_for, wallets,
                 attempt_ok, rounds, end_cause, sweeps, sweep_failed,
                 client_closed, ws_closed>>
  /\ UNCHANGED <<capVars, limVars, brkVars, recVars, passVars, simVars,
                 priceVars, healthVars, ordVars, walVars, exVars, reqVars>>

\* await self.place_orders_parallel(): the seeding call, then one a minute;
\* reqs are the kinds of request its market passes send
PlaceOrdersParallel(reqs) ==
  /\ phase \in {"seeding", "trading"}
  /\ rounds < MaxRounds
  /\ rounds' = rounds + 1
  /\ phase' = "trading"
  /\ run_dry => reqs = {}
  /\ sent_kinds' = sent_kinds \cup reqs
  /\ UNCHANGED <<run_kind, run_dry, attempts, markets, locks_for, wallets,
                 attempt_ok, end_cause, sweeps, sweep_failed, client_closed,
                 ws_closed>>
  /\ UNCHANGED <<capVars, limVars, brkVars, recVars, passVars, simVars,
                 priceVars, healthVars, ordVars, walVars, exVars, reqVars>>

\* CancelledError or another exception leaves the try block
EndTrading(cause) ==
  /\ phase \in {"seeding", "trading"}
  /\ end_cause' = cause
  /\ phase' = "closing_ws"
  /\ UNCHANGED <<run_kind, run_dry, sent_kinds,
                 attempts, markets, locks_for, wallets,
                 attempt_ok, rounds, sweeps, sweep_failed, client_closed,
                 ws_closed>>
  /\ UNCHANGED <<capVars, limVars, brkVars, recVars, passVars, simVars,
                 priceVars, healthVars, ordVars, walVars, exVars, reqVars>>

\* finally: await self.ws.close(); self.metrics.print_summary()
CloseWebSocket ==
  /\ phase = "closing_ws"
  /\ ws_closed' = TRUE
  /\ phase' = "sweep"
  /\ UNCHANGED <<run_kind, run_dry, sent_kinds,
                 attempts, markets, locks_for, wallets,
                 attempt_ok, rounds, end_cause, sweeps, sweep_failed,
                 client_closed>>
  /\ UNCHANGED <<capVars, limVars, brkVars, recVars, passVars, simVars,
                 priceVars, healthVars, ordVars, walVars, exVars, reqVars>>

FinalSweep_Propagates(answer) ==
  /\ phase = "sweep"
  /\ sweeps' = sweeps + 1
  /\ sweep_failed' = (answer # "ok")
  /\ phase' = IF answer # "ok" THEN "finished"
              ELSE IF run_kind = "main" THEN "closing_client" ELSE "finished"
  /\ sent_kinds' = sent_kinds \cup {"cancel_orders"}
  /\ UNCHANGED <<run_kind, run_dry, attempts, markets, locks_for, wallets,
                 attempt_ok, rounds, end_cause, client_closed, ws_closed>>
  /\ UNCHANGED <<capVars, limVars, brkVars, recVars, passVars, simVars,
                 priceVars, healthVars, ordVars, walVars, exVars, reqVars>>

\* try: client.cancel_orders() except Exception: log
FinalSweep(answer) ==
  /\ phase = "sweep"
  /\ sweeps' = sweeps + 1
  /\ sweep_failed' = (answer # "ok")
  /\ phase' = IF run_kind = "main" THEN "closing_client" ELSE "finished"
  /\ sent_kinds' = sent_kinds \cup {"cancel_orders"}
  /\ UNCHANGED <<run_kind, run_dry, attempts, markets, locks_for, wallets,
                 attempt_ok, rounds, end_cause, client_closed, ws_closed>>
  /\ UNCHANGED <<capVars, limVars, brkVars, recVars, passVars, simVars,
                 priceVars, healthVars, ordVars, walVars, exVars, reqVars>>

\* src/main.py: await self.client.close()
CloseClient ==
  /\ phase = "closing_client"
  /\ client_closed' = TRUE
  /\ phase' = "finished"
  /\ UNCHANGED <<run_kind, run_dry, sent_kinds,
                 attempts, markets, locks_for, wallets,
                 attempt_ok, rounds, end_cause, sweeps, sweep_failed,
                 ws_closed>>
  /\ UNCHANGED <<capVars, limVars, brkVars, recVars, passVars, simVars,
                 priceVars, healthVars, ordVars, walVars, exVars, reqVars>>

\* C28: run() reaches the first place_orders_parallel only after one
\* startup attempt obtained a non-empty market list, a lock for every
\* market and a non-empty wallet snapshot; after any failure the loop
\* starts another attempt
C28_NoPartialStart ==
  /\ (phase \in StartedPhases \/ rounds > 0) =>
       /\ markets # {}
       /\ locks_for = markets
       /\ wallets
       /\ attempt_ok = {"markets", "locks", "wallets"}
  /\ (phase = "retry_sleep") => (rounds = 0 /\ ~wallets)

C28_Witness ==
  /\ phase = "trading"
  /\ rounds = 1
  /\ attempts = 3
  /\ markets = Markets

\* C29: the startup loop stops retrying after finitely many attempts
C29_StartupBounded == <>(phase \notin StartupPhases)

C31_DryRunSendsNothing == run_dry => sent_kinds = {}

\* ---------------------------------------------------------------------
\* Open orders: _fetch_open_orders (paginated) and _on_event_update
\* ---------------------------------------------------------------------

\* limit=50 of get_orders, scaled
PageLimit == 2

\* get_orders requests that are told apart
MaxPages == 3

\* copies of one order that are told apart in the returned lists
MaxCopies == 2

\* orders the server may return; id 0 and market 0 stand for a missing key
OrderPool ==
  { [id |-> 1, market |-> 1, status |-> "open"],
    [id |-> 2, market |-> 1, status |-> "Pending"],
    [id |-> 3, market |-> 2, status |-> "filled"],
    [id |-> 0, market |-> 2, status |-> "new"],
    [id |-> 5, market |-> 0, status |-> "open"] }

Cursors == 0..2

OrderPages == UNION { [1..n -> OrderPool] : n \in 0..PageLimit }

\* what get_orders answers: a page and a cursor, success false, or it raises
Responses ==
  [kind : {"ok"}, orders : OrderPages, next_cursor : Cursors]
    \cup { [kind |-> k, orders |-> <<>>, next_cursor |-> 0] :
             k \in {"unsuccessful", "raises"} }

\* str.lower()
Lower(str) ==
  IF str = "Pending" THEN "pending" ELSE str

\* order.get("status", "").lower() in ["open", "pending", "new"]
RestingStatus(str) == Lower(str) \in {"open", "pending", "new"}

SeqRange(q) == { q[i] : i \in 1..Len(q) }

\* orders of a page the loop appends, in page order; bot.py stops at an
\* order without "market" (KeyError)
KeptOfPage(kind, page) ==
  IF kind = "main"
    THEN SelectSeq(page, LAMBDA o : RestingStatus(o.status) /\ o.market # 0)
    ELSE LET bad == { i \in 1..Len(page) : page[i].market = 0 }
         IN  IF bad = {} THEN page
             ELSE SubSeq(page, 1,
                    (CHOOSE i \in bad : \A j \in bad : i <= j) - 1)

KeyError(kind, page) ==
  kind = "bot" /\ \E i \in 1..Len(page) : page[i].market = 0

Appended(coll, q) ==
  [o \in OrderPool |->
     Min(coll[o] + Cardinality({ i \in 1..Len(q) : q[i] = o }), MaxCopies)]

\* cursor for the next request, 0 when the loop ends
NextCursor(resp) ==
  LET n == Len(resp.orders)
  IN  IF resp.next_cursor # 0 THEN resp.next_cursor
      ELSE IF n >= PageLimit THEN resp.orders[n].id
      ELSE 0

\* has_more after the page has been processed
HasMore(resp) ==
  /\ NextCursor(resp) # 0
  /\ Len(resp.orders) >= PageLimit

OrdInit ==
  /\ ord_impl \in BotKinds
  /\ ord_pc = "start"
  /\ cursor = 0
  /\ fetched_orders = [o \in OrderPool |-> 0]
  /\ pages = 0
  /\ handed = [market |-> 0, orders |-> {}]

\* no order list is fetched
OrdIdle ==
  /\ ord_impl = "main"
  /\ ord_pc = "idle"
  /\ cursor = 0
  /\ fetched_orders = <<>>
  /\ pages = 0
  /\ handed = [market |-> 0, orders |-> {}]

\* place_orders_parallel calls _fetch_open_orders
FetchOpenOrders ==
  /\ ord_pc = "start"
  /\ ord_pc' = "fetching"
  /\ UNCHANGED <<ord_impl, cursor, fetched_orders, pages, handed>>
  /\ UNCHANGED <<capVars, limVars, brkVars, recVars, passVars, simVars,
                 priceVars, healthVars, runVars, walVars, exVars, reqVars>>

\* one iteration of while has_more: a get_orders request and its answer
GetOrdersPage(resp) ==
  /\ ord_pc = "fetching"
  /\ pages' = Min(pages + 1, MaxPages)
  /\ IF resp.kind # "ok" \/ resp.orders = <<>>
       THEN /\ ord_pc' = "returned"
            /\ UNCHANGED <<cursor, fetched_orders>>
       ELSE /\ fetched_orders' =
                 Appended(fetched_orders, KeptOfPage(ord_impl, resp.orders))
            /\ IF KeyError(ord_impl, resp.orders)
                 THEN /\ ord_pc' = "returned"
                      /\ UNCHANGED cursor
                 ELSE /\ cursor' = IF NextCursor(resp) # 0
                                     THEN NextCursor(resp) ELSE cursor
                      /\ ord_pc' = IF HasMore(resp) THEN "fetching"
                                   ELSE "returned"
  /\ UNCHANGED <<ord_impl, handed>>
  /\ UNCHANGED <<capVars, limVars, brkVars, recVars, passVars, simVars,
                 priceVars, healthVars, runVars, walVars, exVars, reqVars>>

\* open_orders_map.get(m) goes to the pass of market m
HandToPass(m) ==
  /\ ord_pc = "returned"
  /\ handed' = [market |-> m,
                orders |-> { o \in OrderPool :
                               fetched_orders[o] > 0 /\ o.market = m }]
  /\ ord_pc' = "handed"
  /\ UNCHANGED <<ord_impl, cursor, fetched_orders, pages>>
  /\ UNCHANGED <<capVars, limVars, brkVars, recVars, passVars, simVars,
                 priceVars, healthVars, runVars, walVars, exVars, reqVars>>

\* the WebSocket handler's own get_orders for the market of the event
OnEventUpdate(m, resp) ==
  /\ ord_pc = "start"
  /\ resp.kind # "raises"
  /\ handed' =
       [market |-> m,
        orders |->
          IF resp.kind # "ok" THEN {}
          ELSE IF ord_impl = "main"
            THEN { o \in SeqRange(resp.orders) :
                     o.market = m /\ RestingStatus(o.status) }
            ELSE SeqRange(resp.orders)]
  /\ ord_pc' = "handed"
  /\ UNCHANGED <<ord_impl, cursor, fetched_orders, pages>>
  /\ UNCHANGED <<capVars, limVars, brkVars, recVars, passVars, simVars,
                 priceVars, healthVars, runVars, walVars, exVars, reqVars>>

\* C32: every order handed to a market pass has a status in
\* {open, pending, new} and belongs to the market of the pass, on the
\* periodic path and on the WebSocket path
C32_HandedOrdersResting ==
  ord_pc = "handed" =>
    \A o \in handed.orders :
      /\ Lower(o.status) \in {"open", "pending", "new"}
      /\ o.market = handed.market

\* C39: _fetch_open_orders returns after finitely many get_orders requests
\* and no order appears twice in the lists it returns
C39_FetchTerminates ==
  /\ <>(ord_pc \notin {"start", "fetching"})
  /\ [](ord_pc = "returned" => \A o \in OrderPool : fetched_orders[o] <= 1)

\* ---------------------------------------------------------------------
\* Wallet refresh throttle (_update_wallets)
\* ---------------------------------------------------------------------

\* "if now - self.last_wallet_update < 0.1", in ticks of 50 ms
WalletThrottle == 2

\* ticks of the wall clock that are modelled
MaxWalClock == 5

\* get_wallets requests that are recorded
MaxWalletRequests == 3

WalInit ==
  /\ wal_clock = WalletThrottle
  /\ last_wallet_update = 0
  /\ upc = [m \in Markets |-> "idle"]
  /\ call_now = [m \in Markets |-> 0]
  /\ wallet_requests = <<>>

\* no wallet refresh is running
WalIdle ==
  /\ wal_clock = 0
  /\ last_wallet_update = 0
  /\ upc = <<>>
  /\ call_now = <<>>
  /\ wallet_requests = <<>>

\* now - self.last_wallet_update < 0.1
Throttled(m) == wal_clock - last_wallet_update < WalletThrottle

\* now = time.time(); return when throttled, else send get_wallets
UpdateWalletsEnter(m) ==
  /\ upc[m] = "idle"
  /\ IF Throttled(m)
       THEN UNCHANGED <<upc, call_now, wallet_requests>>
       ELSE /\ Len(wallet_requests) < MaxWalletRequests
            /\ call_now' = [call_now EXCEPT ![m] = wal_clock]
            /\ wallet_requests' = Append(wallet_requests, wal_clock)
            /\ upc' = [upc EXCEPT ![m] = "awaiting"]
  /\ UNCHANGED <<wal_clock, last_wallet_update>>
  /\ UNCHANGED <<capVars, limVars, brkVars, recVars, passVars, simVars,
                 priceVars, healthVars, runVars, ordVars, exVars, reqVars>>

\* the response arrives: on success self.last_wallet_update = now
UpdateWalletsReturn(m, success) ==
  /\ upc[m] = "awaiting"
  /\ last_wallet_update' = IF success THEN call_now[m]
                           ELSE last_wallet_update
  /\ upc' = [upc EXCEPT ![m] = "idle"]
  /\ UNCHANGED <<wal_clock, call_now, wallet_requests>>
  /\ UNCHANGED <<capVars, limVars, brkVars, recVars, passVars, simVars,
                 priceVars, healthVars, runVars, ordVars, exVars, reqVars>>

WalTick ==
  /\ wal_clock < MaxWalClock
  /\ wal_clock' = wal_clock + 1
  /\ UNCHANGED <<last_wallet_update, upc, call_now, wallet_requests>>
  /\ UNCHANGED <<capVars, limVars, brkVars, recVars, passVars, simVars,
                 priceVars, healthVars, runVars, ordVars, exVars, reqVars>>

\* C33: no two get_wallets requests are sent less than the minimum
\* inter-refresh interval apart, whatever the interleaving of the passes
C33_WalletThrottle ==
  \A i, j \in 1..Len(wallet_requests) :
    i < j => wallet_requests[j] - wallet_requests[i] >= WalletThrottle

\* ---------------------------------------------------------------------
\* Two consecutive passes of one market with nothing changed in between
\* Prices of the pricing functions are in thousandths, order prices in
\* cents, quantities and base balances in hundredths, money in 1/10000.
\* ---------------------------------------------------------------------

\* config.trading.min_spread_ticks = 0.01, in thousandths
MIN_SPREAD_TICKS == 10

\* SpreadConfig() as configured by default
DefaultSpreadConfig ==
  [enabled |-> TRUE, base_spread |-> 300, volatility_multiplier |-> 2,
   inventory_impact |-> 200, min_spread |-> 100, max_spread |-> 1500]

\* largest base balance drawn, in units of 0.50
MaxBaseHalves == 4

\* largest quote balance drawn, in units of 5.00
MaxQuoteFives == 2

\* fair prices of the two passes, in thousandths: 0.212, 10.00, 20.00
PassMids == {212, 10000, 20000}

PassBases == {50 * h : h \in 0..MaxBaseHalves}

PassQuotes == {50000 * f : f \in 1..MaxQuoteFives} \cup {500000}

RECURSIVE LockedBase(_)
LockedBase(oo) ==
  IF oo = <<>> THEN 0
  ELSE (IF Head(oo).side = "sell" THEN Head(oo).quantity ELSE 0)
         + LockedBase(Tail(oo))

RECURSIVE LockedQuote(_)
LockedQuote(oo) ==
  IF oo = <<>> THEN 0
  ELSE (IF Head(oo).side = "buy"
          THEN Head(oo).price * Head(oo).quantity ELSE 0)
         + LockedQuote(Tail(oo))

\* calculate_locked_funds: <<locked_base, locked_quote>>
calculate_locked_funds(oo) == <<LockedBase(oo), LockedQuote(oo)>>

\* the book holds only the bot's own orders: ticker bid and ask, thousandths
OwnTicker(oo) ==
  [bid |-> SetMax({10 * oo[i].price : i \in {j \in 1..Len(oo) :
                                               oo[j].side = "buy"}}),
   ask |-> SetMin({10 * oo[i].price : i \in {j \in 1..Len(oo) :
                                               oo[j].side = "sell"}})]

\* a decimal tie in the quotes of a pass
QuoteTie(mid_price, base_avail) ==
  LET sp == get_dynamic_spread(DefaultSpreadConfig, 0, base_avail)
  IN  \/ IsTie(mid_price * (20000 - sp[1]), 20000)
      \/ IsTie(mid_price * (20000 + sp[2]), 20000)

\* _process_market, pricing: the dynamic spread from the available base
\* balance, then the quotes around the fair price
QuotesOfPass(mid_price, base_avail) ==
  LET sp == get_dynamic_spread(DefaultSpreadConfig, 0, base_avail)
  IN  calculate_quotes(mid_price, sp[1], sp[2])

\* _process_market, pennying against the ticker: prices in cents
PenniedOfPass(q, mid_price, oo, ticker) ==
  LET own == { [side |-> oo[i].side, price |-> 10 * oo[i].price] :
                 i \in 1..Len(oo) }
      pen == apply_pennying(q[1], q[2], mid_price, ticker, own,
                            MIN_SPREAD_TICKS)
  IN  <<pen.buy_price \div 10, pen.sell_price \div 10>>

\* _process_market, sizing: balances include the funds locked in the
\* resting orders oo
SizedOfPass(cents, base_avail, quote_avail, oo) ==
  LET locked == calculate_locked_funds(oo)
      base_balance == base_avail + locked[1]
      quote_bal == quote_avail + locked[2]
      qty == RequiredQty(quote_bal, cents[1], cents[2])
      sell_qty == IF base_balance > 0 /\ base_balance < qty
                    THEN base_balance ELSE qty
  IN  [target |-> [buy_price |-> cents[1], buy_quantity |-> qty,
                   sell_price |-> cents[2], sell_quantity |-> sell_qty],
       desired |-> [buy |-> ShouldBuy(quote_bal, cents[1], qty),
                    sell |-> base_balance >= sell_qty /\ sell_qty > 0]]

\* _process_market, order maintenance: the calls the pass issues
CallsOfPass(kind, oo, sized) ==
  LET diff == DiffOrders(kind, oo, sized.target, sized.desired)
  IN  [target |-> sized.target,
       desired |-> sized.desired,
       cancels |-> diff.orders_to_cancel,
       creates |-> CreateSides(sized.target, sized.desired,
                               [buy |-> diff.buy_active,
                                sell |-> diff.sell_active], FALSE)]

\* the element of a one-element set
TheOne(S) == CHOOSE x \in S : TRUE

\* _process_market from the spread to the calls it issues, one market,
\* wallet balances base_avail and quote_avail, resting orders oo
ProcessMarket(kind, mid_price, base_avail, quote_avail, oo, ticker) ==
  TheOne({ CallsOfPass(kind, oo, sized) :
    sized \in { SizedOfPass(cents, base_avail, quote_avail, oo) :
      cents \in { PenniedOfPass(q, mid_price, oo, ticker) :
        q \in { QuotesOfPass(mid_price, base_avail) } } } })

\* the orders resting after a pass whose calls all succeeded
RestingAfter(oo, pass) ==
  LET kept == SelectSeq(oo, LAMBDA o :
                \A i \in 1..Len(pass.cancels) : pass.cancels[i] # o.id)
      buy == IF "buy" \in pass.creates
               THEN <<[id |-> 1, side |-> "buy",
                       price |-> pass.target.buy_price,
                       quantity |-> pass.target.buy_quantity]>>
               ELSE <<>>
      sell == IF "sell" \in pass.creates
                THEN <<[id |-> 2, side |-> "sell",
                        price |-> pass.target.sell_price,
                        quantity |-> pass.target.sell_quantity]>>
                ELSE <<>>
  IN  kept \o buy \o sell

\* first pass after the startup cleanup: no resting orders, empty book
FirstPass ==
  /\ fn = "none"
  /\ \E kind \in BotKinds, mid_price \in PassMids, base_avail \in PassBases,
        quote_avail \in PassQuotes :
       /\ ~QuoteTie(mid_price, base_avail)
       /\ LET pass == ProcessMarket(kind, mid_price, base_avail, quote_avail,
                                    <<>>, None)
              oo == RestingAfter(<<>>, pass)
              locked == calculate_locked_funds(oo)
          IN  /\ args' = [kind |-> kind, mid_price |-> mid_price,
                          base_avail |-> base_avail - locked[1],
                          quote_avail |-> quote_avail - locked[2],
                          open_orders |-> oo]
              /\ ret' = pass
  /\ fn' = "first_pass"
  /\ UNCHANGED <<capVars, limVars, brkVars, recVars, passVars, simVars,
                 healthVars, runVars, ordVars, walVars, exVars, reqVars>>

\* next pass: same fair price, the wallet reflects the orders just placed,
\* the book shows them
SecondPass ==
  /\ fn = "first_pass"
  /\ ~QuoteTie(args.mid_price, args.base_avail)
  /\ ret' = ProcessMarket(args.kind, args.mid_price, args.base_avail,
                          args.quote_avail, args.open_orders,
                          OwnTicker(args.open_orders))
  /\ fn' = "second_pass"
  /\ UNCHANGED args
  /\ UNCHANGED <<capVars, limVars, brkVars, recVars, passVars, simVars,
                 healthVars, runVars, ordVars, walVars, exVars, reqVars>>

\* C34: the pass that follows a fully successful pass, with nothing else
\* changed, issues no cancel_order and no create_order
C34_NoFlicker ==
  fn = "second_pass" => (ret.cancels = <<>> /\ ret.creates = {})

\* ---------------------------------------------------------------------
\* One market: the periodic cycle and the WebSocket handler against the
\* exchange's book of the bot's orders
\* ---------------------------------------------------------------------

\* orders the exchange accepts before the model stops creating
MaxOrderIds == 2

\* place_orders_parallel and _on_event_update
ExTasks == {"cycle", "ws"}

\* targets of a pass: the fair price moves between passes
ExTargets ==
  { [buy_price |-> 300, buy_quantity |-> 333,
     sell_price |-> 310, sell_quantity |-> 333],
    [buy_price |-> 400, buy_quantity |-> 333,
     sell_price |-> 410, sell_quantity |-> 333] }

NoPlan == [creates |-> {}, target |-> CHOOSE t \in ExTargets : TRUE]

\* the resting orders of a side
RestingOf(side) == SelectSeq(ex_orders, LAMBDA o : o.side = side)

\* after the startup cleanup: nothing rests, nobody holds the lock
ExInit ==
  /\ ex_orders = <<>>
  /\ ex_next_id = 1
  /\ ex_pc = [t \in ExTasks |-> "idle"]
  /\ ex_snap = [t \in ExTasks |-> <<>>]
  /\ ex_plan = [t \in ExTasks |-> NoPlan]
  /\ ex_lock = "free"

\* the exchange model of a specification that is not exercised
ExIdle ==
  /\ ex_orders = <<>>
  /\ ex_next_id = 0
  /\ ex_pc = <<>>
  /\ ex_snap = <<>>
  /\ ex_plan = <<>>
  /\ ex_lock = "free"

\* the task reads the market's open orders: _fetch_open_orders in the
\* cycle, get_orders in the handler; both before the lock is looked at
ExFetch(t) ==
  /\ ex_pc[t] = "idle"
  /\ ex_snap' = [ex_snap EXCEPT ![t] = ex_orders]
  /\ ex_pc' = [ex_pc EXCEPT ![t] = "fetched"]
  /\ UNCHANGED <<ex_orders, ex_next_id, ex_plan, ex_lock>>
  /\ UNCHANGED <<capVars, limVars, brkVars, recVars, passVars, simVars,
                 priceVars, healthVars, runVars, ordVars, walVars, reqVars>>

\* _process_market: skip when the lock is held, else take it
ExEnter(t) ==
  /\ ex_pc[t] = "fetched"
  /\ IF ex_lock # "free"
       THEN /\ ex_pc' = [ex_pc EXCEPT ![t] = "idle"]
            /\ UNCHANGED ex_lock
       ELSE /\ ex_lock' = t
            /\ ex_pc' = [ex_pc EXCEPT ![t] = "locked"]
  /\ UNCHANGED <<ex_orders, ex_next_id, ex_snap, ex_plan>>
  /\ UNCHANGED <<capVars, limVars, brkVars, recVars, passVars, simVars,
                 priceVars, healthVars, runVars, ordVars, walVars, reqVars>>

\* diff_orders on the orders fetched, then the gathered cancel_order
\* calls; those in failed raise and leave the order resting
ExCancel(t, tgt, want, failed) ==
  /\ ex_pc[t] = "locked"
  /\ LET diff == DiffOrders("main", ex_snap[t], tgt, want)
         sent_ids == { diff.orders_to_cancel[i] :
                         i \in 1..Len(diff.orders_to_cancel) }
         gone == sent_ids \ failed
     IN  /\ failed \subseteq sent_ids
         /\ ex_orders' = SelectSeq(ex_orders, LAMBDA o : o.id \notin gone)
         /\ ex_plan' = [ex_plan EXCEPT ![t] =
              [creates |-> CreateSides(tgt, want,
                             [buy |-> diff.buy_active,
                              sell |-> diff.sell_active], FALSE),
               target |-> tgt]]
  /\ ex_pc' = [ex_pc EXCEPT ![t] = "cancelled"]
  /\ UNCHANGED <<ex_next_id, ex_snap, ex_lock>>
  /\ UNCHANGED <<capVars, limVars, brkVars, recVars, passVars, simVars,
                 priceVars, healthVars, runVars, ordVars, walVars, reqVars>>

\* the order create_order sends for a side
NewOrder(id, side, tgt) ==
  [id |-> id, side |-> side,
   price |-> IF side = "buy" THEN tgt.buy_price ELSE tgt.sell_price,
   quantity |-> IF side = "buy" THEN tgt.buy_quantity
                ELSE tgt.sell_quantity]

\* the gathered create_order calls, those in accepted rest on the book;
\* the lock is released when the block is left
ExCreate(t, accepted) ==
  /\ ex_pc[t] = "cancelled"
  /\ accepted \subseteq ex_plan[t].creates
  /\ ex_next_id + Cardinality(accepted) <= MaxOrderIds + 1
  /\ LET buy == IF "buy" \in accepted
                  THEN <<NewOrder(ex_next_id, "buy", ex_plan[t].target)>>
                  ELSE <<>>
         sell == IF "sell" \in accepted
                   THEN <<NewOrder(ex_next_id + Len(buy), "sell",
                                   ex_plan[t].target)>>
                   ELSE <<>>
     IN  /\ ex_orders' = ex_orders \o buy \o sell
         /\ ex_next_id' = ex_next_id + Len(buy) + Len(sell)
  /\ ex_plan' = [ex_plan EXCEPT ![t] = NoPlan]
  /\ ex_snap' = [ex_snap EXCEPT ![t] = <<>>]
  /\ ex_lock' = "free"
  /\ ex_pc' = [ex_pc EXCEPT ![t] = "idle"]
  /\ UNCHANGED <<capVars, limVars, brkVars, recVars, passVars, simVars,
                 priceVars, healthVars, runVars, ordVars, walVars, reqVars>>

\* a resting order is filled by a counterparty
ExFill(i) ==
  /\ i \in 1..Len(ex_orders)
  /\ ex_orders' = SelectSeq(ex_orders, LAMBDA o : o.id # ex_orders[i].id)
  /\ UNCHANGED <<ex_next_id, ex_pc, ex_snap, ex_plan, ex_lock>>
  /\ UNCHANGED <<capVars, limVars, brkVars, recVars, passVars, simVars,
                 priceVars, healthVars, runVars, ordVars, walVars, reqVars>>

\* C35: at any time the market has at most one resting buy order and at
\* most one resting sell order of the bot
C35_OnePerSide ==
  /\ ex_next_id > 0 => Len(RestingOf("buy")) <= 1
  /\ ex_next_id > 0 => Len(RestingOf("sell")) <= 1

\* ---------------------------------------------------------------------
\* The buy order of one pass of src/main.py: sizing, allocation under the
\* capital lock, the empty-wallet default and the create decision
\* ---------------------------------------------------------------------

\* tracker balances a pass can read, in 1/10000
GrantChoices == {0, 700, 20000, 50000, 150000}

\* buy and sell prices of a pass, in cents
GrantQuotes == QuoteChoices \cup {<<21, 22>>}

\* the buy side of _process_market: empty is "not self.wallets", at_read
\* the tracker when quote_balance is read, at_lock the tracker when the
\* allocation re-checks it, l the locked quote, resting the buy_active flag
BuyOfPass(empty, at_read, at_lock, l, bp, sp, resting) ==
  LET qb == at_read + l
      qty == RequiredQty(qb, bp, sp)
      r == IF ShouldBuy(qb, bp, qty)
             THEN AllocateMain(at_lock, l, bp, qty)
             ELSE [tracker |-> at_lock, cost |-> 0, qty |-> qty,
                   buy |-> FALSE, drawn |-> 0, returned |-> 0]
      buy_wanted == IF empty THEN TRUE ELSE r.buy
  IN  [created |-> buy_wanted /\ ~resting /\ bp > 0,
       quantity |-> r.qty,
       cost |-> bp * r.qty,
       granted |-> r.drawn + l]

\* one pass decides its buy order
DecideBuy ==
  /\ fn = "none"
  /\ \E empty, resting \in BOOLEAN, at_read, at_lock \in GrantChoices,
        l \in LockedChoices, q \in GrantQuotes :
       /\ at_lock <= at_read
       /\ empty => at_read = 0
       /\ args' = [empty |-> empty, at_read |-> at_read, at_lock |-> at_lock,
                   locked |-> l, quote |-> q, buy_active |-> resting]
       /\ ret' = BuyOfPass(empty, at_read, at_lock, l, q[1], q[2], resting)
  /\ fn' = "buy_of_pass"
  /\ UNCHANGED <<capVars, limVars, brkVars, recVars, passVars, simVars,
                 healthVars, runVars, ordVars, walVars, exVars, reqVars>>

\* C36: a buy order a pass creates has a quantity above 0 and a cost
\* covered by what the pass drew from the tracker plus its locked quote
C36_BuyCovered ==
  (fn = "buy_of_pass" /\ ret.created) =>
    (ret.quantity > 0 /\ ret.cost <= ret.granted)

\* ---------------------------------------------------------------------
\* The requests of one market pass: cancel_order for the stale orders,
\* then create_order for the sides that need an order (dry_run off)
\* ---------------------------------------------------------------------

\* most stale orders of a pass
MaxCancels == 2

RqSides == {"buy", "sell"}

\* a request is unsent, in flight, answered or has raised
RqStates == {"unsent", "sent", "returned", "raised"}

RqInit ==
  /\ rq_impl \in Impls
  /\ rq_pc = "cancelling"
  /\ \E n \in 0..MaxCancels : cancel_req = [i \in 1..n |-> "unsent"]
  /\ \E want \in SUBSET RqSides :
       create_req = [sd \in RqSides |->
                       IF sd \in want THEN "unsent" ELSE "unwanted"]

\* a pass whose requests are not exercised
RqIdle ==
  /\ rq_impl = "main"
  /\ rq_pc = "off"
  /\ cancel_req = <<>>
  /\ create_req = <<>>

\* every cancel request of the pass has been answered or has raised
CancelsBack_NoWait == TRUE

CancelsBack ==
  \A i \in 1..Len(cancel_req) : cancel_req[i] \in {"returned", "raised"}

\* src/main.py: the cancel tasks are built and gathered, all requests
\* leave together
GatherCancels ==
  /\ rq_impl = "main"
  /\ rq_pc = "cancelling"
  /\ Len(cancel_req) > 0
  /\ \A i \in 1..Len(cancel_req) : cancel_req[i] = "unsent"
  /\ cancel_req' = [i \in 1..Len(cancel_req) |-> "sent"]
  /\ UNCHANGED <<rq_impl, rq_pc, create_req>>
  /\ UNCHANGED <<capVars, limVars, brkVars, recVars, passVars, simVars,
                 priceVars, healthVars, runVars, ordVars, walVars, exVars>>

\* bot.py: the loop awaits cancel_order for one id after the other
CancelNext(i) ==
  /\ rq_impl = "bot"
  /\ rq_pc = "cancelling"
  /\ i \in 1..Len(cancel_req)
  /\ cancel_req[i] = "unsent"
  /\ \A j \in 1..(i - 1) : cancel_req[j] \in {"returned", "raised"}
  /\ cancel_req' = [cancel_req EXCEPT ![i] = "sent"]
  /\ UNCHANGED <<rq_impl, rq_pc, create_req>>
  /\ UNCHANGED <<capVars, limVars, brkVars, recVars, passVars, simVars,
                 priceVars, healthVars, runVars, ordVars, walVars, exVars>>

\* a cancel request comes back: a result, or an exception that is logged
CancelAnswered(i, how) ==
  /\ rq_pc = "cancelling"
  /\ i \in 1..Len(cancel_req)
  /\ cancel_req[i] = "sent"
  /\ cancel_req' = [cancel_req EXCEPT ![i] = how]
  /\ UNCHANGED <<rq_impl, rq_pc, create_req>>
  /\ UNCHANGED <<capVars, limVars, brkVars, recVars, passVars, simVars,
                 priceVars, healthVars, runVars, ordVars, walVars, exVars>>

\* the gather of src/main.py, or the loop of bot.py, is over: the pass
\* goes on to the creates
CancelsOver ==
  /\ rq_pc = "cancelling"
  /\ CancelsBack
  /\ rq_pc' = "creating"
  /\ UNCHANGED <<rq_impl, cancel_req, create_req>>
  /\ UNCHANGED <<capVars, limVars, brkVars, recVars, passVars, simVars,
                 priceVars, healthVars, runVars, ordVars, walVars, exVars>>

\* src/main.py: the create tasks are built and gathered
GatherCreates ==
  /\ rq_impl = "main"
  /\ rq_pc = "creating"
  /\ \E sd \in RqSides : create_req[sd] = "unsent"
  /\ create_req' = [sd \in RqSides |->
                      IF create_req[sd] = "unsent" THEN "sent"
                      ELSE create_req[sd]]
  /\ UNCHANGED <<rq_impl, rq_pc, cancel_req>>
  /\ UNCHANGED <<capVars, limVars, brkVars, recVars, passVars, simVars,
                 priceVars, healthVars, runVars, ordVars, walVars, exVars>>

\* bot.py: create_order for the buy side is awaited, then for the sell side
CreateNext(sd) ==
  /\ rq_impl = "bot"
  /\ rq_pc = "creating"
  /\ create_req[sd] = "unsent"
  /\ sd = "sell" => create_req["buy"] \in {"unwanted", "returned", "raised"}
  /\ create_req' = [create_req EXCEPT ![sd] = "sent"]
  /\ UNCHANGED <<rq_impl, rq_pc, cancel_req>>
  /\ UNCHANGED <<capVars, limVars, brkVars, recVars, passVars, simVars,
                 priceVars, healthVars, runVars, ordVars, walVars, exVars>>

\* a create request comes back
CreateAnswered(sd, how) ==
  /\ rq_pc = "creating"
  /\ create_req[sd] = "sent"
  /\ create_req' = [create_req EXCEPT ![sd] = how]
  /\ UNCHANGED <<rq_impl, rq_pc, cancel_req>>
  /\ UNCHANGED <<capVars, limVars, brkVars, recVars, passVars, simVars,
                 priceVars, healthVars, runVars, ordVars, walVars, exVars>>

\* the pass returns
PassOver ==
  /\ rq_pc = "creating"
  /\ \A sd \in RqSides : create_req[sd] \in {"unwanted", "returned", "raised"}
  /\ rq_pc' = "done"
  /\ UNCHANGED <<rq_impl, cancel_req, create_req>>
  /\ UNCHANGED <<capVars, limVars, brkVars, recVars, passVars, simVars,
                 priceVars, healthVars, runVars, ordVars, walVars, exVars>>

\* the task of the pass is cancelled while it awaits: CancelledError is no
\* Exception, it leaves _process_market
PassCancelled ==
  /\ rq_pc \in {"cancelling", "creating"}
  /\ \/ \E i \in 1..Len(cancel_req) : cancel_req[i] = "sent"
     \/ \E sd \in RqSides : create_req[sd] = "sent"
  /\ rq_pc' = "aborted"
  /\ UNCHANGED <<rq_impl, cancel_req, create_req>>
  /\ UNCHANGED <<capVars, limVars, brkVars, recVars, passVars, simVars,
                 priceVars, healthVars, runVars, ordVars, walVars, exVars>>

\* C37: when a create_order request of the pass has been issued, every
\* cancel_order request of the pass has come back, with a result or an error
C37_CancelsBeforeCreates ==
  (\E sd \in RqSides : create_req[sd] \in {"sent", "returned", "raised"}) =>
    \A i \in 1..Len(cancel_req) : cancel_req[i] \in {"returned", "raised"}

\* C37 witness: a create request is in flight in a pass that cancelled
\* two orders, one of the cancels having raised
C37_Witness ==
  /\ \E sd \in RqSides : create_req[sd] = "sent"
  /\ Len(cancel_req) >= 2
  /\ \E i, j \in 1..Len(cancel_req) :
       cancel_req[i] = "raised" /\ cancel_req[j] = "returned"

\* C38: while callers keep issuing requests and every request sent comes
\* back, a sync breaker in OPEN eventually admits a request (as far as the
\* modelled clock runs), and a sync breaker in HALF_OPEN eventually moves
\* to CLOSED or to OPEN
C38_NotBlockedForever ==
  /\ (cb_kind = "sync" /\ cb_state = "OPEN")
       ~> (cb_event.op = "admit" \/ now = MaxTime)
  /\ (cb_kind = "sync" /\ cb_state = "HALF_OPEN")
       ~> (cb_state \in {"CLOSED", "OPEN"})

\* ---------------------------------------------------------------------
\* CapitalAllocator: capital in cents, ratios in percent, allocations as
\* exact fractions <<numerator, denominator>> of 1/10000
\* ---------------------------------------------------------------------

\* AllocationConfig.base_reserve_ratio and max_reserve_ratio, in percent
BASE_RESERVE_RATIO == 10

MAX_RESERVE_RATIO == 30

\* AllocationConfig.min_order_value, in 1/10000
MIN_ORDER_VALUE == 1000

\* most active markets handed to the allocator
MaxAllocMarkets == 3

\* total capital drawn, in cents
AllocTotals == {0, 5, 12, 25, 50, 100, 500, 1000}

\* calculate_reserve_ratio, in percent
calculate_reserve_ratio(num_markets) ==
  Min(MAX_RESERVE_RATIO, Max(BASE_RESERVE_RATIO,
                             BASE_RESERVE_RATIO + num_markets))

\* calculate_allocation: base_allocation as a fraction, reserve and
\* deployable in 1/10000
calculate_allocation(total_capital, num_markets) ==
  IF total_capital <= 0 \/ num_markets <= 0
    THEN [base_allocation |-> <<0, 1>>, reserve |-> 0, deployable |-> 0]
  ELSE LET reserve == total_capital * calculate_reserve_ratio(num_markets)
           deployable == total_capital * 100 - reserve
           effective_markets == deployable \div MIN_ORDER_VALUE
       IN  [base_allocation |->
              IF deployable < MIN_ORDER_VALUE * num_markets
                THEN IF effective_markets > 0
                       THEN <<deployable, effective_markets>>
                       ELSE <<0, 1>>
                ELSE <<deployable, num_markets>>,
            reserve |-> reserve,
            deployable |-> deployable]

\* get_market_allocation: priority_boost is 1.5
get_market_allocation(is_priority, base_allocation) ==
  IF base_allocation[1] <= 0 THEN <<0, 1>>
  ELSE IF is_priority
    THEN <<3 * base_allocation[1], 2 * base_allocation[2]>>
  ELSE base_allocation

\* the sum of two fractions
AddFraction(a, b) == <<a[1] * b[2] + b[1] * a[2], a[2] * b[2]>>

\* the allocations of markets 1..n summed
RECURSIVE SumAllocations(_, _, _)
SumAllocations(n, priority_markets, base_allocation) ==
  IF n = 0 THEN <<0, 1>>
  ELSE AddFraction(
         SumAllocations(n - 1, priority_markets, base_allocation),
         get_market_allocation(n \in priority_markets, base_allocation))

\* the allocator computes the figures of one capital value
CalculateAllocation ==
  /\ fn = "none"
  /\ \E total_capital \in AllocTotals, num_markets \in 1..MaxAllocMarkets :
       \E priority_markets \in SUBSET (1..num_markets) :
         /\ args' = [total_capital |-> total_capital,
                     num_markets |-> num_markets,
                     priority_markets |-> priority_markets]
         /\ ret' = calculate_allocation(total_capital, num_markets)
  /\ fn' = "calculate_allocation"
  /\ UNCHANGED <<capVars, limVars, brkVars, recVars, passVars, simVars,
                 healthVars, runVars, ordVars, walVars, exVars, reqVars>>

\* every active market asks for its allocation
GetMarketAllocations ==
  /\ fn = "calculate_allocation"
  /\ ret' = [allocated |-> SumAllocations(args.num_markets,
                                          args.priority_markets,
                                          ret.base_allocation),
             deployable |-> ret.deployable]
  /\ fn' = "get_market_allocation"
  /\ UNCHANGED args
  /\ UNCHANGED <<capVars, limVars, brkVars, recVars, passVars, simVars,
                 healthVars, runVars, ordVars, walVars, exVars, reqVars>>

\* C40: the allocations of the n active markets never sum to more than
\* the deployable capital
C40_AllocationsWithinDeployable ==
  fn = "get_market_allocation" =>
    ret.allocated[1] <= ret.deployable * ret.allocated[2]

\* the capital tracker of a cycle that is not exercised
CapIdle ==
  /\ impl = "main"
  /\ wallet_iron = 0
  /\ tracker = 0
  /\ capital_lock = 0
  /\ mpc = [m \in Markets |-> "done"]
  /\ locked_quote = [m \in Markets |-> 0]
  /\ buy_price = [m \in Markets |-> 0]
  /\ sell_price = [m \in Markets |-> 0]
  /\ quote_balance = [m \in Markets |-> 0]
  /\ required_qty = [m \in Markets |-> 0]
  /\ should_buy = [m \in Markets |-> FALSE]
  /\ avail = [m \in Markets |-> 0]
  /\ cost = [m \in Markets |-> 0]
  /\ drawn = [m \in Markets |-> 0]
  /\ returned = [m \in Markets |-> 0]

InitCapital == CapInit /\ LimIdle /\ BrkIdle /\ RecIdle /\ PassIdle /\ SimIdle
  /\ PriceIdle /\ HealthIdle /\ RunIdle /\ OrdIdle /\ WalIdle /\ ExIdle /\ RqIdle

NextCapital ==
  \E m \in Markets :
    \/ AcquireForBalance(m)
    \/ ReadQuoteBalance(m)
    \/ SkipAllocation(m)
    \/ AcquireForAllocation(m)
    \/ ReadAvail(m)
    \/ Allocate(m)

SpecCapital == InitCapital /\ [][NextCapital]_vars

InitLimiter == CapIdle /\ LimInit /\ BrkIdle /\ RecIdle /\ PassIdle /\ SimIdle
  /\ PriceIdle /\ HealthIdle /\ RunIdle /\ OrdIdle /\ WalIdle /\ ExIdle /\ RqIdle

NextLimiter ==
  \/ \E c \in Callers :
       \/ SyncCheck(c)
       \/ SyncWake(c)
       \/ SyncRecord(c)
       \/ AsyncEnter(c)
       \/ AsyncWake(c)
  \/ LimTick

SpecLimiter == InitLimiter /\ [][NextLimiter]_vars

InitBreaker == CapIdle /\ LimIdle /\ BrkInit /\ RecIdle /\ PassIdle /\ SimIdle
  /\ PriceIdle /\ HealthIdle /\ RunIdle /\ OrdIdle /\ WalIdle /\ ExIdle /\ RqIdle

NextBreaker ==
  \/ \E k \in Clients :
       \/ SyncAllow(k)
       \/ AsyncCall(k)
       \/ \E o \in Outcomes : SyncRespond(k, o)
       \/ \E o \in Outcomes : AsyncRespond(k, o)
  \/ SyncReadState
  \/ GetSupplyMetrics
  \/ BrkTick

SpecBreaker == InitBreaker /\ [][NextBreaker]_vars

InitReconcile == CapIdle /\ LimIdle /\ BrkIdle /\ RecInit /\ PassIdle /\ SimIdle
  /\ PriceIdle /\ HealthIdle /\ RunIdle /\ OrdIdle /\ WalIdle /\ ExIdle /\ RqIdle

NextReconcile ==
  \/ Diff
  \/ CancelStale
  \/ CreateNew

SpecReconcile == InitReconcile /\ [][NextReconcile]_vars

InitPass == CapIdle /\ LimIdle /\ BrkIdle /\ RecIdle /\ PassInit /\ SimIdle
  /\ PriceIdle /\ HealthIdle /\ RunIdle /\ OrdIdle /\ WalIdle /\ ExIdle /\ RqIdle

NextPass ==
  \/ StartCycle
  \/ \E m \in Markets :
       \/ WsEvent(m)
       \/ \E src \in Sources :
            \/ PassEnter(m, src)
            \/ \E e \in ExceptionKinds \cup {"none"} : PassBody(m, src, e)
  \/ GatherReturns

SpecPass == InitPass /\ [][NextPass]_vars

InitRequests ==
  CapIdle /\ LimIdle /\ BrkIdle /\ RecIdle /\ PassIdle /\ SimInit
  /\ PriceIdle /\ HealthIdle /\ RunIdle /\ OrdIdle /\ WalIdle /\ ExIdle /\ RqIdle

NextRequests ==
  \E r \in Requests :
    \/ EnterAllocation(r)
    \/ DecideAllocation(r)

SpecRequests == InitRequests /\ [][NextRequests]_vars

InitPricing ==
  CapIdle /\ LimIdle /\ BrkIdle /\ RecIdle /\ PassIdle /\ SimIdle
  /\ PriceInit /\ HealthIdle /\ RunIdle /\ OrdIdle /\ WalIdle /\ ExIdle /\ RqIdle

NextPricing ==
  \/ GetDynamicSpread
  \/ CalculateQuotes
  \/ ApplyPennying
  \/ CalculateFairPrice

SpecPricing == InitPricing /\ [][NextPricing]_vars

InitHealth ==
  CapIdle /\ LimIdle /\ BrkIdle /\ RecIdle /\ PassIdle /\ SimIdle
  /\ PriceIdle /\ HealthInit /\ RunIdle /\ OrdIdle /\ WalIdle /\ ExIdle /\ RqIdle

NextHealth ==
  \/ \E f \in Fetchers :
       \/ FetchBegin(f)
       \/ FetchFlag(f)
       \/ \E fetched \in {"ok", "invalid", "raise"} : FetchEnd(f, fetched)
  \/ FetchOnLoop
  \/ HealthTick
  \/ HealthCheck

SpecHealth == InitHealth /\ [][NextHealth]_vars

InitRun ==
  CapIdle /\ LimIdle /\ BrkIdle /\ RecIdle /\ PassIdle /\ SimIdle
  /\ PriceIdle /\ HealthIdle /\ RunInit /\ OrdIdle /\ WalIdle /\ ExIdle /\ RqIdle

StartupStep ==
  \/ \E found \in SUBSET Markets : FetchMarkets(found)
  \/ \E answer \in {"ok", "breaker_open", "error"} : CancelOnStart(answer)
  \/ \E got \in {"wallets", "empty", "failed"} : UpdateWallets(got)
  \/ Retry
  \/ ConnectWebSocket

ShutdownStep ==
  \/ CloseWebSocket
  \/ \E answer \in {"ok", "error"} : FinalSweep(answer)
  \/ CloseClient

NextRun ==
  \/ StartupStep
  \/ CancelledInStartup
  \/ \E reqs \in SUBSET {"cancel_order", "create_order"} :
       PlaceOrdersParallel(reqs)
  \/ \E cause \in {"cancelled", "error"} : EndTrading(cause)
  \/ ShutdownStep

SpecRun == InitRun /\ [][NextRun]_vars

\* the event loop resumes a coroutine whose await has completed
SpecRunFair == SpecRun /\ WF_vars(StartupStep) /\ WF_vars(ShutdownStep)

InitOrders ==
  CapIdle /\ LimIdle /\ BrkIdle /\ RecIdle /\ PassIdle /\ SimIdle
  /\ PriceIdle /\ HealthIdle /\ RunIdle /\ OrdInit /\ WalIdle /\ ExIdle /\ RqIdle

FetchStep ==
  \/ FetchOpenOrders
  \/ \E resp \in Responses : GetOrdersPage(resp)

NextOrders ==
  \/ FetchStep
  \/ \E m \in Markets : HandToPass(m)
  \/ \E m \in Markets : \E resp \in Responses : OnEventUpdate(m, resp)

SpecOrders == InitOrders /\ [][NextOrders]_vars

\* every get_orders request is answered and the loop goes on
SpecOrdersFair == SpecOrders /\ WF_vars(FetchStep)

InitWallets ==
  CapIdle /\ LimIdle /\ BrkIdle /\ RecIdle /\ PassIdle /\ SimIdle
  /\ PriceIdle /\ HealthIdle /\ RunIdle /\ OrdIdle /\ WalInit /\ ExIdle /\ RqIdle

NextWallets ==
  \/ \E m \in Markets : UpdateWalletsEnter(m)
  \/ \E m \in Markets : \E success \in BOOLEAN :
        UpdateWalletsReturn(m, success)
  \/ WalTick

SpecWallets == InitWallets /\ [][NextWallets]_vars

InitFlicker ==
  CapIdle /\ LimIdle /\ BrkIdle /\ RecIdle /\ PassIdle /\ SimIdle
  /\ PriceInit /\ HealthIdle /\ RunIdle /\ OrdIdle /\ WalIdle /\ ExIdle /\ RqIdle

NextFlicker == FirstPass \/ SecondPass

SpecFlicker == InitFlicker /\ [][NextFlicker]_vars

InitExchange ==
  /\ CapIdle /\ LimIdle /\ BrkIdle /\ RecIdle /\ PassIdle /\ SimIdle
  /\ PriceIdle /\ HealthIdle /\ RunIdle /\ OrdIdle /\ WalIdle /\ ExInit /\ RqIdle

NextExchange ==
  \/ \E t \in ExTasks : ExFetch(t)
  \/ \E t \in ExTasks : ExEnter(t)
  \/ \E t \in ExTasks, tgt \in ExTargets,
        want \in [buy : BOOLEAN, sell : BOOLEAN],
        failed \in SUBSET (1..MaxOrderIds) : ExCancel(t, tgt, want, failed)
  \/ \E t \in ExTasks, accepted \in SUBSET {"buy", "sell"} :
       ExCreate(t, accepted)
  \/ \E i \in 1..MaxOrderIds : ExFill(i)

SpecExchange == InitExchange /\ [][NextExchange]_vars

InitGrant ==
  CapIdle /\ LimIdle /\ BrkIdle /\ RecIdle /\ PassIdle /\ SimIdle
  /\ PriceInit /\ HealthIdle /\ RunIdle /\ OrdIdle /\ WalIdle /\ ExIdle /\ RqIdle

NextGrant == DecideBuy

SpecGrant == InitGrant /\ [][NextGrant]_vars

InitOrdering ==
  CapIdle /\ LimIdle /\ BrkIdle /\ RecIdle /\ PassIdle /\ SimIdle
  /\ PriceIdle /\ HealthIdle /\ RunIdle /\ OrdIdle /\ WalIdle /\ ExIdle
  /\ RqInit

NextOrdering ==
  \/ GatherCancels
  \/ \E i \in 1..MaxCancels : CancelNext(i)
  \/ \E i \in 1..MaxCancels, how \in {"returned", "raised"} :
       CancelAnswered(i, how)
  \/ CancelsOver
  \/ GatherCreates
  \/ \E sd \in RqSides : CreateNext(sd)
  \/ \E sd \in RqSides, how \in {"returned", "raised"} :
       CreateAnswered(sd, how)
  \/ PassOver
  \/ PassCancelled

SpecOrdering == InitOrdering /\ [][NextOrdering]_vars

InitBreakerSync == InitBreaker /\ cb_kind = "sync"

\* a caller enters Blocky._request
SyncIssue == \E k \in Clients : SyncAllow(k)

\* a request that was sent returns or raises
SyncComesBack == \E k \in Clients, o \in Outcomes : SyncRespond(k, o)

NextBreakerSync ==
  \/ SyncIssue
  \/ SyncComesBack
  \/ SyncReadState
  \/ BrkTick

SpecBreakerSync == InitBreakerSync /\ [][NextBreakerSync]_vars

\* callers keep issuing requests, every request sent returns or raises,
\* time passes
SpecBreakerSyncFair ==
  /\ SpecBreakerSync
  /\ WF_vars(SyncIssue)
  /\ WF_vars(SyncComesBack)
  /\ WF_vars(BrkTick)

InitAllocator ==
  CapIdle /\ LimIdle /\ BrkIdle /\ RecIdle /\ PassIdle /\ SimIdle
  /\ PriceInit /\ HealthIdle /\ RunIdle /\ OrdIdle /\ WalIdle /\ ExIdle
  /\ RqIdle

NextAllocator == CalculateAllocation \/ GetMarketAllocations

SpecAllocator == InitAllocator /\ [][NextAllocator]_vars

====
